---- MODULE Spec2Model ----
(***************************************************************************)
(* Verification model of the Emergent agent runtime:                       *)
(*   - the safety classifier and the tool registry (tools/registry.py),    *)
(*   - the agent loop (agent/runtime.py) with its guards, its retry        *)
(*     policy, its tool dispatch and its confirmation step,                *)
(*   - the entry points that start runs (__main__.py, channels/).          *)
(* Strings that the code inspects character by character (shell commands)  *)
(* are sequences of one-character strings; the regular expressions of the  *)
(* classifier are syntax trees interpreted by Ends.                        *)
(***************************************************************************)
EXTENDS Integers, Sequences, FiniteSets, TLC

(***************************************************************************)
(* Regular expressions (Python `re`, flag IGNORECASE).                      *)
(***************************************************************************)

\* Characters matched by \s (and removed by str.strip()).
SpaceChars == {" ", "\t", "\n", "\r", "\f"}

LowerChars ==
  {"a","b","c","d","e","f","g","h","i","j","k","l","m",
   "n","o","p","q","r","s","t","u","v","w","x","y","z"}

DigitChars == {"0","1","2","3","4","5","6","7","8","9"}

\* Characters matched by \w, after case folding.
WordChars == LowerChars \cup DigitChars \cup {"_"}

UpperToLower ==
  ("A" :> "a") @@ ("B" :> "b") @@ ("C" :> "c") @@ ("D" :> "d") @@ ("E" :> "e") @@
  ("F" :> "f") @@ ("G" :> "g") @@ ("H" :> "h") @@ ("I" :> "i") @@ ("J" :> "j") @@
  ("K" :> "k") @@ ("L" :> "l") @@ ("M" :> "m") @@ ("N" :> "n") @@ ("O" :> "o") @@
  ("P" :> "p") @@ ("Q" :> "q") @@ ("R" :> "r") @@ ("S" :> "s") @@ ("T" :> "t") @@
  ("U" :> "u") @@ ("V" :> "v") @@ ("W" :> "w") @@ ("X" :> "x") @@ ("Y" :> "y") @@
  ("Z" :> "z")

\* re.IGNORECASE: the subject character is compared after case folding; the
\* literals and classes of the patterns below are written in lower case.
Fold(c) == IF c \in DOMAIN UpperToLower THEN UpperToLower[c] ELSE c

\* Is position i of s (1-based) a word character?  Outside s: no.
IsWordAt(s, i) == i >= 1 /\ i <= Len(s) /\ Fold(s[i]) \in WordChars

\* Step over one character satisfying Ok, from every position of I.
Step1(s, I, Ok(_)) == {i + 1 : i \in {j \in I : j <= Len(s) /\ Ok(s[j])}}

RECURSIVE Ends(_, _, _), CatEnds(_, _, _, _), StrEnds(_, _, _, _), StarEnds(_, _, _)

\* Ends(r, s, I): the positions where a match of r can end when it starts at
\* some position of I.  A pattern matches iff this set is not empty, whatever
\* the greediness of its repetitions.
Ends(r, s, I) ==
  IF I = {} THEN {}
  ELSE CASE r[1] = "lit"  -> LET Ok(c) == Fold(c) = r[2] IN Step1(s, I, Ok)
         [] r[1] = "str"  -> StrEnds(r[2], 1, s, I)
         [] r[1] = "set"  -> LET Ok(c) == Fold(c) \in r[2] IN Step1(s, I, Ok)
         [] r[1] = "nset" -> LET Ok(c) == Fold(c) \notin r[2] IN Step1(s, I, Ok)
         [] r[1] = "any"  -> LET Ok(c) == c # "\n" IN Step1(s, I, Ok)
         [] r[1] = "cat"  -> CatEnds(r[2], 1, s, I)
         [] r[1] = "alt"  -> UNION {Ends(r[2][k], s, I) : k \in DOMAIN r[2]}
         [] r[1] = "star" -> StarEnds(r[2], s, I)
         [] r[1] = "plus" -> StarEnds(r[2], s, Ends(r[2], s, I))
         [] r[1] = "opt"  -> I \cup Ends(r[2], s, I)
         [] r[1] = "bol"  -> I \cap {1}
         [] r[1] = "eol"  -> {i \in I : \/ i = Len(s) + 1
                                        \/ i = Len(s) /\ s[i] = "\n"}
         [] r[1] = "wb"   -> {i \in I : IsWordAt(s, i - 1) # IsWordAt(s, i)}

CatEnds(rs, k, s, I) ==
  IF k > Len(rs) \/ I = {} THEN I
  ELSE CatEnds(rs, k + 1, s, Ends(rs[k], s, I))

StrEnds(cs, k, s, I) ==
  IF k > Len(cs) \/ I = {} THEN I
  ELSE LET Ok(c) == Fold(c) = cs[k] IN StrEnds(cs, k + 1, s, Step1(s, I, Ok))

StarEnds(r, s, I) ==
  LET J == I \cup Ends(r, s, I)
  IN IF J = I THEN I ELSE StarEnds(r, s, J)

\* pattern.search(s): a match starting anywhere.
Search(r, s) == Ends(r, s, 1..(Len(s) + 1)) # {}

\* pattern.match(s): a match starting at the first character.
Match(r, s) == Ends(r, s, {1}) # {}

\* _TIER3_PATTERNS: 32 patterns of registry.py, in source order
TIER3_PATTERNS ==
  <<
    \* rm\s+-[rf]*r[rf]*\s
    <<"cat",<<<<"str",<<"r","m">>>>,<<"plus",<<"set",SpaceChars>>>>,<<"lit","-">>,<<"star",<<"set",{"r","f"}>>>>,<<"lit","r">>,<<"star",<<"set",{"r","f"}>>>>,<<"set",SpaceChars>>>>>>,
    \* rm\s+--recursive
    <<"cat",<<<<"str",<<"r","m">>>>,<<"plus",<<"set",SpaceChars>>>>,<<"str",<<"-","-","r","e","c","u","r","s","i","v","e">>>>>>>>,
    \* \bsudo\b
    <<"cat",<<<<"wb">>,<<"str",<<"s","u","d","o">>>>,<<"wb">>>>>>,
    \* \bsu\s+-
    <<"cat",<<<<"wb">>,<<"str",<<"s","u">>>>,<<"plus",<<"set",SpaceChars>>>>,<<"lit","-">>>>>>,
    \* \bdoas\b
    <<"cat",<<<<"wb">>,<<"str",<<"d","o","a","s">>>>,<<"wb">>>>>>,
    \* curl[^|]*\|[^|]*\b(bash|sh|zsh|fish|python|perl|ruby)\b
    <<"cat",<<<<"str",<<"c","u","r","l">>>>,<<"star",<<"nset",{"|"}>>>>,<<"lit","|">>,<<"star",<<"nset",{"|"}>>>>,<<"wb">>,<<"alt",<<<<"str",<<"b","a","s","h">>>>,<<"str",<<"s","h">>>>,<<"str",<<"z","s","h">>>>,<<"str",<<"f","i","s","h">>>>,<<"str",<<"p","y","t","h","o","n">>>>,<<"str",<<"p","e","r","l">>>>,<<"str",<<"r","u","b","y">>>>>>>>,<<"wb">>>>>>,
    \* wget[^|]*\|[^|]*\b(bash|sh|zsh|fish|python|perl|ruby)\b
    <<"cat",<<<<"str",<<"w","g","e","t">>>>,<<"star",<<"nset",{"|"}>>>>,<<"lit","|">>,<<"star",<<"nset",{"|"}>>>>,<<"wb">>,<<"alt",<<<<"str",<<"b","a","s","h">>>>,<<"str",<<"s","h">>>>,<<"str",<<"z","s","h">>>>,<<"str",<<"f","i","s","h">>>>,<<"str",<<"p","y","t","h","o","n">>>>,<<"str",<<"p","e","r","l">>>>,<<"str",<<"r","u","b","y">>>>>>>>,<<"wb">>>>>>,
    \* \|[^|]*\b(bash|sh|zsh|fish)\b\s*$
    <<"cat",<<<<"lit","|">>,<<"star",<<"nset",{"|"}>>>>,<<"wb">>,<<"alt",<<<<"str",<<"b","a","s","h">>>>,<<"str",<<"s","h">>>>,<<"str",<<"z","s","h">>>>,<<"str",<<"f","i","s","h">>>>>>>>,<<"wb">>,<<"star",<<"set",SpaceChars>>>>,<<"eol">>>>>>,
    \* \$\([^)]*\brm\b
    <<"cat",<<<<"str",<<"$","(">>>>,<<"star",<<"nset",{")"}>>>>,<<"wb">>,<<"str",<<"r","m">>>>,<<"wb">>>>>>,
    \* \$\([^)]*\bkill\b
    <<"cat",<<<<"str",<<"$","(">>>>,<<"star",<<"nset",{")"}>>>>,<<"wb">>,<<"str",<<"k","i","l","l">>>>,<<"wb">>>>>>,
    \* `[^`]*\brm\b
    <<"cat",<<<<"lit","BACKTICK">>,<<"star",<<"nset",{"BACKTICK"}>>>>,<<"wb">>,<<"str",<<"r","m">>>>,<<"wb">>>>>>,
    \* [;&|]\s*rm\s+
    <<"cat",<<<<"set",{";","&","|"}>>,<<"star",<<"set",SpaceChars>>>>,<<"str",<<"r","m">>>>,<<"plus",<<"set",SpaceChars>>>>>>>>,
    \* [;&|]\s*sudo\b
    <<"cat",<<<<"set",{";","&","|"}>>,<<"star",<<"set",SpaceChars>>>>,<<"str",<<"s","u","d","o">>>>,<<"wb">>>>>>,
    \* [;&|]\s*mkfs\b
    <<"cat",<<<<"set",{";","&","|"}>>,<<"star",<<"set",SpaceChars>>>>,<<"str",<<"m","k","f","s">>>>,<<"wb">>>>>>,
    \* >\s*/etc/
    <<"cat",<<<<"lit",">">>,<<"star",<<"set",SpaceChars>>>>,<<"str",<<"/","e","t","c","/">>>>>>>>,
    \* >\s*/dev/(sda|hda|nvme|sd[a-z])
    <<"cat",<<<<"lit",">">>,<<"star",<<"set",SpaceChars>>>>,<<"str",<<"/","d","e","v","/">>>>,<<"alt",<<<<"str",<<"s","d","a">>>>,<<"str",<<"h","d","a">>>>,<<"str",<<"n","v","m","e">>>>,<<"cat",<<<<"str",<<"s","d">>>>,<<"set",{"a","b","c","d","e","f","g","h","i","j","k","l","m","n","o","p","q","r","s","t","u","v","w","x","y","z"}>>>>>>>>>>>>>>,
    \* >\s*/boot/
    <<"cat",<<<<"lit",">">>,<<"star",<<"set",SpaceChars>>>>,<<"str",<<"/","b","o","o","t","/">>>>>>>>,
    \* >>\s*/etc/passwd
    <<"cat",<<<<"str",<<">",">">>>>,<<"star",<<"set",SpaceChars>>>>,<<"str",<<"/","e","t","c","/","p","a","s","s","w","d">>>>>>>>,
    \* >>\s*/etc/shadow
    <<"cat",<<<<"str",<<">",">">>>>,<<"star",<<"set",SpaceChars>>>>,<<"str",<<"/","e","t","c","/","s","h","a","d","o","w">>>>>>>>,
    \* >>\s*/etc/sudoers
    <<"cat",<<<<"str",<<">",">">>>>,<<"star",<<"set",SpaceChars>>>>,<<"str",<<"/","e","t","c","/","s","u","d","o","e","r","s">>>>>>>>,
    \* :\s*\(\s*\)\s*\{
    <<"cat",<<<<"lit",":">>,<<"star",<<"set",SpaceChars>>>>,<<"lit","(">>,<<"star",<<"set",SpaceChars>>>>,<<"lit",")">>,<<"star",<<"set",SpaceChars>>>>,<<"lit","{">>>>>>,
    \* while\s+true\s*;\s*do\s+.*fork
    <<"cat",<<<<"str",<<"w","h","i","l","e">>>>,<<"plus",<<"set",SpaceChars>>>>,<<"str",<<"t","r","u","e">>>>,<<"star",<<"set",SpaceChars>>>>,<<"lit",";">>,<<"star",<<"set",SpaceChars>>>>,<<"str",<<"d","o">>>>,<<"plus",<<"set",SpaceChars>>>>,<<"star",<<"any">>>>,<<"str",<<"f","o","r","k">>>>>>>>,
    \* \bdd\s+if=/dev/zero
    <<"cat",<<<<"wb">>,<<"str",<<"d","d">>>>,<<"plus",<<"set",SpaceChars>>>>,<<"str",<<"i","f","=","/","d","e","v","/","z","e","r","o">>>>>>>>,
    \* \bdd\s+if=/dev/urandom.*of=/dev/
    <<"cat",<<<<"wb">>,<<"str",<<"d","d">>>>,<<"plus",<<"set",SpaceChars>>>>,<<"str",<<"i","f","=","/","d","e","v","/","u","r","a","n","d","o","m">>>>,<<"star",<<"any">>>>,<<"str",<<"o","f","=","/","d","e","v","/">>>>>>>>,
    \* \bmkfs\b
    <<"cat",<<<<"wb">>,<<"str",<<"m","k","f","s">>>>,<<"wb">>>>>>,
    \* \bfdisk\b
    <<"cat",<<<<"wb">>,<<"str",<<"f","d","i","s","k">>>>,<<"wb">>>>>>,
    \* \bparted\b
    <<"cat",<<<<"wb">>,<<"str",<<"p","a","r","t","e","d">>>>,<<"wb">>>>>>,
    \* chmod\s+[0-7]*[02467][0-7]*\s+/
    <<"cat",<<<<"str",<<"c","h","m","o","d">>>>,<<"plus",<<"set",SpaceChars>>>>,<<"star",<<"set",{"0","1","2","3","4","5","6","7"}>>>>,<<"set",{"0","2","4","6","7"}>>,<<"star",<<"set",{"0","1","2","3","4","5","6","7"}>>>>,<<"plus",<<"set",SpaceChars>>>>,<<"lit","/">>>>>>,
    \* chmod\s+777\s+/(etc|bin|sbin|usr|boot)
    <<"cat",<<<<"str",<<"c","h","m","o","d">>>>,<<"plus",<<"set",SpaceChars>>>>,<<"str",<<"7","7","7">>>>,<<"plus",<<"set",SpaceChars>>>>,<<"lit","/">>,<<"alt",<<<<"str",<<"e","t","c">>>>,<<"str",<<"b","i","n">>>>,<<"str",<<"s","b","i","n">>>>,<<"str",<<"u","s","r">>>>,<<"str",<<"b","o","o","t">>>>>>>>>>>>,
    \* \bnc\s.*\|\s*(bash|sh)
    <<"cat",<<<<"wb">>,<<"str",<<"n","c">>>>,<<"set",SpaceChars>>,<<"star",<<"any">>>>,<<"lit","|">>,<<"star",<<"set",SpaceChars>>>>,<<"alt",<<<<"str",<<"b","a","s","h">>>>,<<"str",<<"s","h">>>>>>>>>>>>,
    \* \b(cat|cp|mv|echo)\s+.*/(\.ssh/id_rsa|\.ssh/id_ed25519|\.env)
    <<"cat",<<<<"wb">>,<<"alt",<<<<"str",<<"c","a","t">>>>,<<"str",<<"c","p">>>>,<<"str",<<"m","v">>>>,<<"str",<<"e","c","h","o">>>>>>>>,<<"plus",<<"set",SpaceChars>>>>,<<"star",<<"any">>>>,<<"lit","/">>,<<"cat",<<<<"lit",".">>,<<"alt",<<<<"str",<<"s","s","h","/","i","d","_","r","s","a">>>>,<<"str",<<"s","s","h","/","i","d","_","e","d","2","5","5","1","9">>>>,<<"str",<<"e","n","v">>>>>>>>>>>>>>>>,
    \* base64\s+-d[^|]*\|[^|]*\b(bash|sh)\b
    <<"cat",<<<<"str",<<"b","a","s","e","6","4">>>>,<<"plus",<<"set",SpaceChars>>>>,<<"str",<<"-","d">>>>,<<"star",<<"nset",{"|"}>>>>,<<"lit","|">>,<<"star",<<"nset",{"|"}>>>>,<<"wb">>,<<"alt",<<<<"str",<<"b","a","s","h">>>>,<<"str",<<"s","h">>>>>>>>,<<"wb">>>>>>
  >>

\* _TIER1_PATTERNS: 60 patterns of registry.py, in source order
TIER1_PATTERNS ==
  <<
    \* ^ls(\s|$)
    <<"cat",<<<<"bol">>,<<"str",<<"l","s">>>>,<<"alt",<<<<"set",SpaceChars>>,<<"eol">>>>>>>>>>,
    \* ^ls\s+(-[lha]+\s+)*[\w./~\s-]*$
    <<"cat",<<<<"bol">>,<<"str",<<"l","s">>>>,<<"plus",<<"set",SpaceChars>>>>,<<"star",<<"cat",<<<<"lit","-">>,<<"plus",<<"set",{"l","h","a"}>>>>,<<"plus",<<"set",SpaceChars>>>>>>>>>>,<<"star",<<"set",WordChars \cup SpaceChars \cup {".","/","~","-"}>>>>,<<"eol">>>>>>,
    \* ^cat\s+
    <<"cat",<<<<"bol">>,<<"str",<<"c","a","t">>>>,<<"plus",<<"set",SpaceChars>>>>>>>>,
    \* ^head\s+
    <<"cat",<<<<"bol">>,<<"str",<<"h","e","a","d">>>>,<<"plus",<<"set",SpaceChars>>>>>>>>,
    \* ^tail\s+
    <<"cat",<<<<"bol">>,<<"str",<<"t","a","i","l">>>>,<<"plus",<<"set",SpaceChars>>>>>>>>,
    \* ^grep\s+
    <<"cat",<<<<"bol">>,<<"str",<<"g","r","e","p">>>>,<<"plus",<<"set",SpaceChars>>>>>>>>,
    \* ^egrep\s+
    <<"cat",<<<<"bol">>,<<"str",<<"e","g","r","e","p">>>>,<<"plus",<<"set",SpaceChars>>>>>>>>,
    \* ^find\s+
    <<"cat",<<<<"bol">>,<<"str",<<"f","i","n","d">>>>,<<"plus",<<"set",SpaceChars>>>>>>>>,
    \* ^ps\s
    <<"cat",<<<<"bol">>,<<"str",<<"p","s">>>>,<<"set",SpaceChars>>>>>>,
    \* ^ps$
    <<"cat",<<<<"bol">>,<<"str",<<"p","s">>>>,<<"eol">>>>>>,
    \* ^pgrep\s+
    <<"cat",<<<<"bol">>,<<"str",<<"p","g","r","e","p">>>>,<<"plus",<<"set",SpaceChars>>>>>>>>,
    \* ^top\s+-b
    <<"cat",<<<<"bol">>,<<"str",<<"t","o","p">>>>,<<"plus",<<"set",SpaceChars>>>>,<<"str",<<"-","b">>>>>>>>,
    \* ^htop\s+-C
    <<"cat",<<<<"bol">>,<<"str",<<"h","t","o","p">>>>,<<"plus",<<"set",SpaceChars>>>>,<<"str",<<"-","c">>>>>>>>,
    \* ^df\s
    <<"cat",<<<<"bol">>,<<"str",<<"d","f">>>>,<<"set",SpaceChars>>>>>>,
    \* ^df$
    <<"cat",<<<<"bol">>,<<"str",<<"d","f">>>>,<<"eol">>>>>>,
    \* ^du\s
    <<"cat",<<<<"bol">>,<<"str",<<"d","u">>>>,<<"set",SpaceChars>>>>>>,
    \* ^free\s
    <<"cat",<<<<"bol">>,<<"str",<<"f","r","e","e">>>>,<<"set",SpaceChars>>>>>>,
    \* ^free$
    <<"cat",<<<<"bol">>,<<"str",<<"f","r","e","e">>>>,<<"eol">>>>>>,
    \* ^uptime$
    <<"cat",<<<<"bol">>,<<"str",<<"u","p","t","i","m","e">>>>,<<"eol">>>>>>,
    \* ^uname\s
    <<"cat",<<<<"bol">>,<<"str",<<"u","n","a","m","e">>>>,<<"set",SpaceChars>>>>>>,
    \* ^uname$
    <<"cat",<<<<"bol">>,<<"str",<<"u","n","a","m","e">>>>,<<"eol">>>>>>,
    \* ^echo\s+
    <<"cat",<<<<"bol">>,<<"str",<<"e","c","h","o">>>>,<<"plus",<<"set",SpaceChars>>>>>>>>,
    \* ^printf\s+
    <<"cat",<<<<"bol">>,<<"str",<<"p","r","i","n","t","f">>>>,<<"plus",<<"set",SpaceChars>>>>>>>>,
    \* ^date$
    <<"cat",<<<<"bol">>,<<"str",<<"d","a","t","e">>>>,<<"eol">>>>>>,
    \* ^date\s
    <<"cat",<<<<"bol">>,<<"str",<<"d","a","t","e">>>>,<<"set",SpaceChars>>>>>>,
    \* ^whoami$
    <<"cat",<<<<"bol">>,<<"str",<<"w","h","o","a","m","i">>>>,<<"eol">>>>>>,
    \* ^id$
    <<"cat",<<<<"bol">>,<<"str",<<"i","d">>>>,<<"eol">>>>>>,
    \* ^pwd$
    <<"cat",<<<<"bol">>,<<"str",<<"p","w","d">>>>,<<"eol">>>>>>,
    \* ^env$
    <<"cat",<<<<"bol">>,<<"str",<<"e","n","v">>>>,<<"eol">>>>>>,
    \* ^printenv\s
    <<"cat",<<<<"bol">>,<<"str",<<"p","r","i","n","t","e","n","v">>>>,<<"set",SpaceChars>>>>>>,
    \* ^which\s+
    <<"cat",<<<<"bol">>,<<"str",<<"w","h","i","c","h">>>>,<<"plus",<<"set",SpaceChars>>>>>>>>,
    \* ^type\s+
    <<"cat",<<<<"bol">>,<<"str",<<"t","y","p","e">>>>,<<"plus",<<"set",SpaceChars>>>>>>>>,
    \* ^wc\s+
    <<"cat",<<<<"bol">>,<<"str",<<"w","c">>>>,<<"plus",<<"set",SpaceChars>>>>>>>>,
    \* ^sort\s+
    <<"cat",<<<<"bol">>,<<"str",<<"s","o","r","t">>>>,<<"plus",<<"set",SpaceChars>>>>>>>>,
    \* ^uniq\s+
    <<"cat",<<<<"bol">>,<<"str",<<"u","n","i","q">>>>,<<"plus",<<"set",SpaceChars>>>>>>>>,
    \* ^cut\s+
    <<"cat",<<<<"bol">>,<<"str",<<"c","u","t">>>>,<<"plus",<<"set",SpaceChars>>>>>>>>,
    \* ^awk\s+
    <<"cat",<<<<"bol">>,<<"str",<<"a","w","k">>>>,<<"plus",<<"set",SpaceChars>>>>>>>>,
    \* ^sed\s+-n\s+
    <<"cat",<<<<"bol">>,<<"str",<<"s","e","d">>>>,<<"plus",<<"set",SpaceChars>>>>,<<"str",<<"-","n">>>>,<<"plus",<<"set",SpaceChars>>>>>>>>,
    \* ^diff\s+
    <<"cat",<<<<"bol">>,<<"str",<<"d","i","f","f">>>>,<<"plus",<<"set",SpaceChars>>>>>>>>,
    \* ^git\s+(status|log|diff|show|branch|remote|fetch|stash\s+list)
    <<"cat",<<<<"bol">>,<<"str",<<"g","i","t">>>>,<<"plus",<<"set",SpaceChars>>>>,<<"alt",<<<<"str",<<"s","t","a","t","u","s">>>>,<<"str",<<"l","o","g">>>>,<<"str",<<"d","i","f","f">>>>,<<"str",<<"s","h","o","w">>>>,<<"str",<<"b","r","a","n","c","h">>>>,<<"str",<<"r","e","m","o","t","e">>>>,<<"str",<<"f","e","t","c","h">>>>,<<"cat",<<<<"str",<<"s","t","a","s","h">>>>,<<"plus",<<"set",SpaceChars>>>>,<<"str",<<"l","i","s","t">>>>>>>>>>>>>>>>,
    \* ^docker\s+(ps|images|logs|inspect|stats|info|version)
    <<"cat",<<<<"bol">>,<<"str",<<"d","o","c","k","e","r">>>>,<<"plus",<<"set",SpaceChars>>>>,<<"alt",<<<<"str",<<"p","s">>>>,<<"str",<<"i","m","a","g","e","s">>>>,<<"str",<<"l","o","g","s">>>>,<<"str",<<"i","n","s","p","e","c","t">>>>,<<"str",<<"s","t","a","t","s">>>>,<<"str",<<"i","n","f","o">>>>,<<"str",<<"v","e","r","s","i","o","n">>>>>>>>>>>>,
    \* ^docker-compose\s+(ps|logs)
    <<"cat",<<<<"bol">>,<<"str",<<"d","o","c","k","e","r","-","c","o","m","p","o","s","e">>>>,<<"plus",<<"set",SpaceChars>>>>,<<"alt",<<<<"str",<<"p","s">>>>,<<"str",<<"l","o","g","s">>>>>>>>>>>>,
    \* ^systemctl\s+(status|list-units|is-active|is-enabled)
    <<"cat",<<<<"bol">>,<<"str",<<"s","y","s","t","e","m","c","t","l">>>>,<<"plus",<<"set",SpaceChars>>>>,<<"alt",<<<<"str",<<"s","t","a","t","u","s">>>>,<<"str",<<"l","i","s","t","-","u","n","i","t","s">>>>,<<"str",<<"i","s","-","a","c","t","i","v","e">>>>,<<"str",<<"i","s","-","e","n","a","b","l","e","d">>>>>>>>>>>>,
    \* ^journalctl\s+
    <<"cat",<<<<"bol">>,<<"str",<<"j","o","u","r","n","a","l","c","t","l">>>>,<<"plus",<<"set",SpaceChars>>>>>>>>,
    \* ^netstat\s+
    <<"cat",<<<<"bol">>,<<"str",<<"n","e","t","s","t","a","t">>>>,<<"plus",<<"set",SpaceChars>>>>>>>>,
    \* ^ss\s+
    <<"cat",<<<<"bol">>,<<"str",<<"s","s">>>>,<<"plus",<<"set",SpaceChars>>>>>>>>,
    \* ^ip\s+(addr|route|link)\s
    <<"cat",<<<<"bol">>,<<"str",<<"i","p">>>>,<<"plus",<<"set",SpaceChars>>>>,<<"alt",<<<<"str",<<"a","d","d","r">>>>,<<"str",<<"r","o","u","t","e">>>>,<<"str",<<"l","i","n","k">>>>>>>>,<<"set",SpaceChars>>>>>>,
    \* ^ifconfig$
    <<"cat",<<<<"bol">>,<<"str",<<"i","f","c","o","n","f","i","g">>>>,<<"eol">>>>>>,
    \* ^ping\s+
    <<"cat",<<<<"bol">>,<<"str",<<"p","i","n","g">>>>,<<"plus",<<"set",SpaceChars>>>>>>>>,
    \* ^nslookup\s+
    <<"cat",<<<<"bol">>,<<"str",<<"n","s","l","o","o","k","u","p">>>>,<<"plus",<<"set",SpaceChars>>>>>>>>,
    \* ^dig\s+
    <<"cat",<<<<"bol">>,<<"str",<<"d","i","g">>>>,<<"plus",<<"set",SpaceChars>>>>>>>>,
    \* ^curl\s+-[^|]*$
    <<"cat",<<<<"bol">>,<<"str",<<"c","u","r","l">>>>,<<"plus",<<"set",SpaceChars>>>>,<<"lit","-">>,<<"star",<<"nset",{"|"}>>>>,<<"eol">>>>>>,
    \* ^wget\s+-q[^|]*$
    <<"cat",<<<<"bol">>,<<"str",<<"w","g","e","t">>>>,<<"plus",<<"set",SpaceChars>>>>,<<"str",<<"-","q">>>>,<<"star",<<"nset",{"|"}>>>>,<<"eol">>>>>>,
    \* ^python3?\s+-c\s+.*(print|import\s+sys)
    <<"cat",<<<<"bol">>,<<"str",<<"p","y","t","h","o","n">>>>,<<"opt",<<"lit","3">>>>,<<"plus",<<"set",SpaceChars>>>>,<<"str",<<"-","c">>>>,<<"plus",<<"set",SpaceChars>>>>,<<"star",<<"any">>>>,<<"alt",<<<<"str",<<"p","r","i","n","t">>>>,<<"cat",<<<<"str",<<"i","m","p","o","r","t">>>>,<<"plus",<<"set",SpaceChars>>>>,<<"str",<<"s","y","s">>>>>>>>>>>>>>>>,
    \* ^pip\s+(list|show|freeze)
    <<"cat",<<<<"bol">>,<<"str",<<"p","i","p">>>>,<<"plus",<<"set",SpaceChars>>>>,<<"alt",<<<<"str",<<"l","i","s","t">>>>,<<"str",<<"s","h","o","w">>>>,<<"str",<<"f","r","e","e","z","e">>>>>>>>>>>>,
    \* ^pip3\s+(list|show|freeze)
    <<"cat",<<<<"bol">>,<<"str",<<"p","i","p","3">>>>,<<"plus",<<"set",SpaceChars>>>>,<<"alt",<<<<"str",<<"l","i","s","t">>>>,<<"str",<<"s","h","o","w">>>>,<<"str",<<"f","r","e","e","z","e">>>>>>>>>>>>,
    \* ^uv\s+(run|pip\s+list)
    <<"cat",<<<<"bol">>,<<"str",<<"u","v">>>>,<<"plus",<<"set",SpaceChars>>>>,<<"alt",<<<<"str",<<"r","u","n">>>>,<<"cat",<<<<"str",<<"p","i","p">>>>,<<"plus",<<"set",SpaceChars>>>>,<<"str",<<"l","i","s","t">>>>>>>>>>>>>>>>,
    \* ^npm\s+(list|info|outdated)
    <<"cat",<<<<"bol">>,<<"str",<<"n","p","m">>>>,<<"plus",<<"set",SpaceChars>>>>,<<"alt",<<<<"str",<<"l","i","s","t">>>>,<<"str",<<"i","n","f","o">>>>,<<"str",<<"o","u","t","d","a","t","e","d">>>>>>>>>>>>,
    \* ^node\s+--version
    <<"cat",<<<<"bol">>,<<"str",<<"n","o","d","e">>>>,<<"plus",<<"set",SpaceChars>>>>,<<"str",<<"-","-","v","e","r","s","i","o","n">>>>>>>>,
    \* ^(python3?|pip3?|node|npm|git|docker)\s+--version
    <<"cat",<<<<"bol">>,<<"alt",<<<<"cat",<<<<"str",<<"p","y","t","h","o","n">>>>,<<"opt",<<"lit","3">>>>>>>>,<<"cat",<<<<"str",<<"p","i","p">>>>,<<"opt",<<"lit","3">>>>>>>>,<<"str",<<"n","o","d","e">>>>,<<"str",<<"n","p","m">>>>,<<"str",<<"g","i","t">>>>,<<"str",<<"d","o","c","k","e","r">>>>>>>>,<<"plus",<<"set",SpaceChars>>>>,<<"str",<<"-","-","v","e","r","s","i","o","n">>>>>>>>
  >>

\* _TIER2_SIGNALS: 24 patterns of registry.py, in source order
TIER2_SIGNALS ==
  <<
    \* \bkill\b
    <<"cat",<<<<"wb">>,<<"str",<<"k","i","l","l">>>>,<<"wb">>>>>>,
    \* \bpkill\b
    <<"cat",<<<<"wb">>,<<"str",<<"p","k","i","l","l">>>>,<<"wb">>>>>>,
    \* \bkillall\b
    <<"cat",<<<<"wb">>,<<"str",<<"k","i","l","l","a","l","l">>>>,<<"wb">>>>>>,
    \* \brm\b
    <<"cat",<<<<"wb">>,<<"str",<<"r","m">>>>,<<"wb">>>>>>,
    \* \bmv\b
    <<"cat",<<<<"wb">>,<<"str",<<"m","v">>>>,<<"wb">>>>>>,
    \* \bcp\b.*-[rf]
    <<"cat",<<<<"wb">>,<<"str",<<"c","p">>>>,<<"wb">>,<<"star",<<"any">>>>,<<"lit","-">>,<<"set",{"r","f"}>>>>>>,
    \* \bmkdir\b
    <<"cat",<<<<"wb">>,<<"str",<<"m","k","d","i","r">>>>,<<"wb">>>>>>,
    \* \btouch\b
    <<"cat",<<<<"wb">>,<<"str",<<"t","o","u","c","h">>>>,<<"wb">>>>>>,
    \* \bchmod\b
    <<"cat",<<<<"wb">>,<<"str",<<"c","h","m","o","d">>>>,<<"wb">>>>>>,
    \* \bchown\b
    <<"cat",<<<<"wb">>,<<"str",<<"c","h","o","w","n">>>>,<<"wb">>>>>>,
    \* \bsystemctl\s+(start|stop|restart|enable|disable|reload)
    <<"cat",<<<<"wb">>,<<"str",<<"s","y","s","t","e","m","c","t","l">>>>,<<"plus",<<"set",SpaceChars>>>>,<<"alt",<<<<"str",<<"s","t","a","r","t">>>>,<<"str",<<"s","t","o","p">>>>,<<"str",<<"r","e","s","t","a","r","t">>>>,<<"str",<<"e","n","a","b","l","e">>>>,<<"str",<<"d","i","s","a","b","l","e">>>>,<<"str",<<"r","e","l","o","a","d">>>>>>>>>>>>,
    \* \bdocker\s+(start|stop|restart|rm|rmi|pull|run|exec)
    <<"cat",<<<<"wb">>,<<"str",<<"d","o","c","k","e","r">>>>,<<"plus",<<"set",SpaceChars>>>>,<<"alt",<<<<"str",<<"s","t","a","r","t">>>>,<<"str",<<"s","t","o","p">>>>,<<"str",<<"r","e","s","t","a","r","t">>>>,<<"str",<<"r","m">>>>,<<"str",<<"r","m","i">>>>,<<"str",<<"p","u","l","l">>>>,<<"str",<<"r","u","n">>>>,<<"str",<<"e","x","e","c">>>>>>>>>>>>,
    \* \bdocker-compose\s+(up|down|restart|stop|start)
    <<"cat",<<<<"wb">>,<<"str",<<"d","o","c","k","e","r","-","c","o","m","p","o","s","e">>>>,<<"plus",<<"set",SpaceChars>>>>,<<"alt",<<<<"str",<<"u","p">>>>,<<"str",<<"d","o","w","n">>>>,<<"str",<<"r","e","s","t","a","r","t">>>>,<<"str",<<"s","t","o","p">>>>,<<"str",<<"s","t","a","r","t">>>>>>>>>>>>,
    \* \bpip\s+install\b
    <<"cat",<<<<"wb">>,<<"str",<<"p","i","p">>>>,<<"plus",<<"set",SpaceChars>>>>,<<"str",<<"i","n","s","t","a","l","l">>>>,<<"wb">>>>>>,
    \* \bpip3\s+install\b
    <<"cat",<<<<"wb">>,<<"str",<<"p","i","p","3">>>>,<<"plus",<<"set",SpaceChars>>>>,<<"str",<<"i","n","s","t","a","l","l">>>>,<<"wb">>>>>>,
    \* \buv\s+add\b
    <<"cat",<<<<"wb">>,<<"str",<<"u","v">>>>,<<"plus",<<"set",SpaceChars>>>>,<<"str",<<"a","d","d">>>>,<<"wb">>>>>>,
    \* \bnpm\s+install\b
    <<"cat",<<<<"wb">>,<<"str",<<"n","p","m">>>>,<<"plus",<<"set",SpaceChars>>>>,<<"str",<<"i","n","s","t","a","l","l">>>>,<<"wb">>>>>>,
    \* \bapt(-get)?\s+(install|remove|purge|upgrade)\b
    <<"cat",<<<<"wb">>,<<"str",<<"a","p","t">>>>,<<"opt",<<"str",<<"-","g","e","t">>>>>>,<<"plus",<<"set",SpaceChars>>>>,<<"alt",<<<<"str",<<"i","n","s","t","a","l","l">>>>,<<"str",<<"r","e","m","o","v","e">>>>,<<"str",<<"p","u","r","g","e">>>>,<<"str",<<"u","p","g","r","a","d","e">>>>>>>>,<<"wb">>>>>>,
    \* \byum\s+(install|remove)\b
    <<"cat",<<<<"wb">>,<<"str",<<"y","u","m">>>>,<<"plus",<<"set",SpaceChars>>>>,<<"alt",<<<<"str",<<"i","n","s","t","a","l","l">>>>,<<"str",<<"r","e","m","o","v","e">>>>>>>>,<<"wb">>>>>>,
    \* \bsnap\s+(install|remove)\b
    <<"cat",<<<<"wb">>,<<"str",<<"s","n","a","p">>>>,<<"plus",<<"set",SpaceChars>>>>,<<"alt",<<<<"str",<<"i","n","s","t","a","l","l">>>>,<<"str",<<"r","e","m","o","v","e">>>>>>>>,<<"wb">>>>>>,
    \* \bgit\s+(commit|push|pull|checkout|reset|merge|rebase|tag)\b
    <<"cat",<<<<"wb">>,<<"str",<<"g","i","t">>>>,<<"plus",<<"set",SpaceChars>>>>,<<"alt",<<<<"str",<<"c","o","m","m","i","t">>>>,<<"str",<<"p","u","s","h">>>>,<<"str",<<"p","u","l","l">>>>,<<"str",<<"c","h","e","c","k","o","u","t">>>>,<<"str",<<"r","e","s","e","t">>>>,<<"str",<<"m","e","r","g","e">>>>,<<"str",<<"r","e","b","a","s","e">>>>,<<"str",<<"t","a","g">>>>>>>>,<<"wb">>>>>>,
    \* \bcrontab\b
    <<"cat",<<<<"wb">>,<<"str",<<"c","r","o","n","t","a","b">>>>,<<"wb">>>>>>,
    \* \bscreen\b
    <<"cat",<<<<"wb">>,<<"str",<<"s","c","r","e","e","n">>>>,<<"wb">>>>>>,
    \* \btmux\b
    <<"cat",<<<<"wb">>,<<"str",<<"t","m","u","x">>>>,<<"wb">>>>>>
  >>

(***************************************************************************)
(* Safety classifier and tool registry (tools/registry.py).                *)
(***************************************************************************)

\* SafetyTier
TIER_1_AUTO == "auto"
TIER_2_CONFIRM == "confirm"
TIER_3_BLOCKED == "blocked"

\* ExecutionContext
USER_SESSION == "user_session"
CRON_HEADLESS == "cron_headless"

AnySearch(patterns, s) == \E k \in DOMAIN patterns : Search(patterns[k], s)

AnyMatch(patterns, s) == \E k \in DOMAIN patterns : Match(patterns[k], s)

RECURSIVE LStrip(_), RStrip(_)

LStrip(s) == IF s # <<>> /\ Head(s) \in SpaceChars THEN LStrip(Tail(s)) ELSE s

RStrip(s) ==
  IF s # <<>> /\ s[Len(s)] \in SpaceChars THEN RStrip(SubSeq(s, 1, Len(s) - 1)) ELSE s

\* str.strip()
Strip(s) == RStrip(LStrip(s))

\* The order of the passes, were the allowlist consulted before the blocklist.
classify_command_allowlist_first(cmd) ==
  LET c == Strip(cmd)
  IN IF c = <<>> THEN TIER_2_CONFIRM
     ELSE IF AnyMatch(TIER1_PATTERNS, c) /\ ~AnySearch(TIER2_SIGNALS, c)
          THEN TIER_1_AUTO
     ELSE IF AnySearch(TIER2_SIGNALS, c) THEN TIER_2_CONFIRM
     ELSE IF AnySearch(TIER3_PATTERNS, c) THEN TIER_3_BLOCKED
     ELSE TIER_2_CONFIRM

\* classify_command, were the allowlist pass to skip its signal double-check.
classify_command_no_double_check(cmd) ==
  LET c == Strip(cmd)
  IN IF c = <<>> THEN TIER_2_CONFIRM
     ELSE IF AnySearch(TIER3_PATTERNS, c) THEN TIER_3_BLOCKED
     ELSE IF AnyMatch(TIER1_PATTERNS, c) THEN TIER_1_AUTO
     ELSE TIER_2_CONFIRM

\* classify_command: strip, then blocklist, allowlist (with the signal
\* double-check), signals, default.
classify_command(cmd) ==
  LET c == Strip(cmd)
  IN IF c = <<>> THEN TIER_2_CONFIRM
     ELSE IF AnySearch(TIER3_PATTERNS, c) THEN TIER_3_BLOCKED
     ELSE IF AnyMatch(TIER1_PATTERNS, c) /\ ~AnySearch(TIER2_SIGNALS, c)
          THEN TIER_1_AUTO
     ELSE IF AnySearch(TIER2_SIGNALS, c) THEN TIER_2_CONFIRM
     ELSE TIER_2_CONFIRM

\* tool_input.get(key, default)
Get(tool_input, key, default) ==
  IF key \in DOMAIN tool_input THEN tool_input[key] ELSE default

\* create_registry(): the tools of tools/__init__.py with their default tiers.
create_registry(execution_context) ==
  [tools |->
     [shell_execute   |-> TIER_1_AUTO,
      file_read       |-> TIER_1_AUTO,
      file_write      |-> TIER_2_CONFIRM,
      web_fetch       |-> TIER_1_AUTO,
      system_info     |-> TIER_1_AUTO,
      list_directory  |-> TIER_1_AUTO,
      directory_tree  |-> TIER_1_AUTO,
      search_files    |-> TIER_1_AUTO,
      search_in_files |-> TIER_1_AUTO,
      file_info       |-> TIER_1_AUTO,
      file_move       |-> TIER_2_CONFIRM,
      file_delete     |-> TIER_2_CONFIRM],
   execution_context |-> execution_context]

\* ToolRegistry.register
register(registry, name, safety_tier) ==
  [registry EXCEPT !.tools = (name :> safety_tier) @@ registry.tools]

\* The registry as _run() assembles it: create_registry plus the memory tools
\* and the cron tool.
AssembledRegistry(execution_context) ==
  register(register(register(create_registry(execution_context),
                             "memory_search", TIER_1_AUTO),
                    "memory_store", TIER_1_AUTO),
           "cron_schedule", TIER_2_CONFIRM)

\* ToolRegistry.classify
classify(registry, tool_name, tool_input) ==
  IF tool_name \notin DOMAIN registry.tools THEN TIER_3_BLOCKED
  ELSE IF tool_name = "shell_execute"
       THEN LET tier == classify_command(Get(tool_input, "command", <<>>))
            IN IF tier = TIER_2_CONFIRM /\ registry.execution_context = CRON_HEADLESS
               THEN TIER_3_BLOCKED ELSE tier
  ELSE IF tool_name = "file_write"
       THEN IF registry.execution_context = CRON_HEADLESS
            THEN TIER_3_BLOCKED ELSE TIER_2_CONFIRM
  ELSE IF tool_name = "cron_schedule"
       THEN IF Get(tool_input, "action", "") = "list" THEN TIER_1_AUTO
            ELSE IF registry.execution_context = CRON_HEADLESS
                 THEN TIER_3_BLOCKED ELSE TIER_2_CONFIRM
  ELSE registry.tools[tool_name]

\* Leading and trailing padding: nothing or one blank.
CommandPads ==
  {<<>>,
   <<" ">>}

\* Heads: empty, ls, cat f, echo hi, rm, mkdir d, SUDO ls, xyz.
CommandHeads ==
  {<<>>,
   <<"l","s">>,
   <<"c","a","t"," ","f">>,
   <<"e","c","h","o"," ","h","i">>,
   <<"r","m">>,
   <<"m","k","d","i","r"," ","d">>,
   <<"S","U","D","O"," ","l","s">>,
   <<"x","y","z">>}

\* Separators: none, a blank, a semicolon, a pipe.
CommandMids ==
  {<<>>,
   <<" ">>,
   <<";"," ">>,
   <<" ","|"," ">>}

\* Tails: empty, rm -rf /, rm -rf, rm f, sh, -la, > /etc/x, sudo id.
CommandTails ==
  {<<>>,
   <<"r","m"," ","-","r","f"," ","/">>,
   <<"r","m"," ","-","r","f">>,
   <<"r","m"," ","f">>,
   <<"s","h">>,
   <<"-","l","a">>,
   <<">"," ","/","e","t","c","/","x">>,
   <<"s","u","d","o"," ","i","d">>}

\* The command strings the classifier is exercised on.
Commands ==
  {p1 \o h \o m \o t \o p2 :
     p1 \in CommandPads, h \in CommandHeads, m \in CommandMids,
     t \in CommandTails, p2 \in CommandPads}

\* Tool names a model response can carry: the registered ones and one that
\* is not registered.
ToolNames == DOMAIN AssembledRegistry(USER_SESSION).tools \cup {"nonexistent"}

\* Tool inputs (JSON objects) per tool name.
ToolInputs(tool_name) ==
  IF tool_name = "shell_execute"
  THEN {[command |-> c] : c \in Commands} \cup {[timeout_seconds |-> "5"]}
  ELSE IF tool_name = "cron_schedule"
  THEN {[action |-> a] : a \in {"list", "create", "delete"}} \cup {[prompt |-> "p"]}
  ELSE {[path |-> "f"]}

VARIABLES
  cl_call,      \* the tool call being classified: [name, input]
  cl_tier,      \* execution context -> tier returned by classify, or "unset"
  cl_cmd_tier   \* tier returned by classify_command for the command, or "unset"

cl_vars == <<cl_call, cl_tier, cl_cmd_tier>>

Contexts == {USER_SESSION, CRON_HEADLESS}


(***************************************************************************)
(* State of the memory store and of the channels.                          *)
(***************************************************************************)

VARIABLES
  st_rows,      \* table conversations: a set of rows [rowid, session_id, role, content]
  st_log,       \* session -> the turns appended to it, in order
  st_query,     \* arguments of the last get_recent_history, None before
  st_result     \* what the last get_recent_history returned

st_vars == <<st_rows, st_log, st_query, st_result>>

VARIABLES
  ch_entry,     \* who starts the runs: telegram, terminal or cron
  ch_pc,        \* idle, run, steps, done or propagated
  ch_run,       \* number of the current message or job, from 1
  ch_text,      \* response_text of the current turn, None before it is computed
  ch_trace,     \* trace_data of the current turn, None before it is computed
  ch_step,      \* position in the statements that follow the run
  ch_failed,    \* a store write of the current turn failed
  ch_turns,     \* table conversations: the rows [run, role] written
  ch_traces,    \* table traces: the rows [run, success] written
  ch_sent       \* the runs whose response was delivered, in order

ch_vars == <<ch_entry, ch_pc, ch_run, ch_text, ch_trace, ch_step, ch_failed,
             ch_turns, ch_traces, ch_sent>>

VARIABLES
  pr_rows,      \* table user_profile: key -> [value, confidence, updated_at]
  pr_now,       \* CURRENT_TIMESTAMP, in days
  pr_call       \* the last operation on the profile and its arguments

pr_vars == <<pr_rows, pr_now, pr_call>>

VARIABLES
  sm_sessions,  \* TelegramGateway._sessions: chat_id -> session_id
  sm_rows,      \* table chat_sessions: chat_id -> session_id
  sm_handler,   \* handler -> [pc, chat_id, session_id] of its _get_or_create_session
  sm_created,   \* number of session ids created so far
  sm_processed  \* the pairs <<chat_id, session_id>> under which a message was processed

sm_vars == <<sm_sessions, sm_rows, sm_handler, sm_created, sm_processed>>

VARIABLES
  tr_rows,      \* table traces: a set of rows [id, session_id, total_tokens, success]
  tr_saved,     \* the trace ids written by save_trace, in call order
  tr_uuids      \* number of ids created by uuid.uuid4()

tr_vars == <<tr_rows, tr_saved, tr_uuids>>

VARIABLES
  cx_results,   \* what the four fetches of build_context gave: profile, memories, summary, history
  cx_budget,    \* ContextBuilder._context_budget
  cx_out        \* None while build_context runs, then what it returned

cx_vars == <<cx_results, cx_budget, cx_out>>

VARIABLES
  rv_collection, \* SemanticRetriever._collection is not None
  rv_docs,       \* number of documents in the collection
  rv_call,       \* the last call of search: its top_k and what the index did
  rv_out         \* what the last call of search gave

rv_vars == <<rv_collection, rv_docs, rv_call, rv_out>>

VARIABLES
  su_pc,        \* idle, create, returned or done
  su_turn,      \* number of turns that asked for a summary
  su_fetched,   \* number of turns of the history given to summarize_conversation
  su_text,      \* length of conversation_text
  su_attempt,   \* calls of the model made by this summarize_conversation
  su_result,    \* what summarize_conversation returned: None or the length of a summary
  su_rows,      \* table session_summaries: the lengths of the summaries saved
  su_history    \* number of turns of the history the transport goes on with

su_vars == <<su_pc, su_turn, su_fetched, su_text, su_attempt, su_result, su_rows, su_history>>

VARIABLES
  sh_calls      \* the calls of shell_execute: [pc, proc, timeout_seconds, result] of each

sh_vars == <<sh_calls>>

VARIABLES
  cr_jobs,      \* the jobs of the scheduler: job_id -> [prompt, cron_expression]
  cr_call       \* the last cron_schedule call: its action and whether it was carried out

cr_vars == <<cr_jobs, cr_call>>

\* Startup: position, interpreter mode, loaded guards, exit status, messages
VARIABLES bt_pc, bt_debug, bt_guards, bt_exit, bt_handled

bt_vars == <<bt_pc, bt_debug, bt_guards, bt_exit, bt_handled>>

\* Concurrent profile writes: the row of the key, the position of each call
VARIABLES pk_row, pk_call

pk_vars == <<pk_row, pk_call>>

\* Telegram confirmation: pending events, set events, stored answers, the
\* waiting turn, the first press for its token, tokens made, presses handled
VARIABLES cf_pending, cf_set, cf_results, cf_wait, cf_first, cf_made, cf_presses

cf_vars == <<cf_pending, cf_set, cf_results, cf_wait, cf_first, cf_made, cf_presses>>

\* Indexing: documents by id, documents ever indexed, messages indexed
VARIABLES ix_collection, ix_indexed, ix_messages

ix_vars == <<ix_collection, ix_indexed, ix_messages>>

\* Concurrent messages: the position of each handler, messages arrived, rows
VARIABLES pm_pc, pm_arrived, pm_rows

pm_vars == <<pm_pc, pm_arrived, pm_rows>>

ext_vars == <<pr_vars, sm_vars, tr_vars, cx_vars, rv_vars, su_vars, sh_vars, cr_vars, bt_vars, pk_vars, cf_vars, ix_vars, pm_vars>>
(***************************************************************************)
(* Agent loop (agent/runtime.py).                                          *)
(***************************************************************************)

\* AgentConfig guards
MAX_ITERATIONS == 15
MAX_TOKENS_SESSION == 100000

\* stop_after_attempt(3) of _call_with_retry
RETRY_ATTEMPTS == 3

\* Largest number of tool_use blocks in one model response.
MaxBlocks == 2

\* An optional value: None is the empty set, a value v is {v}.
None == {}
Some(v) == {v}

\* Texts are sequences of fragments, so that prefixes and containment can be
\* computed.
StartsWith(text, fragment) == text # <<>> /\ text[1] = fragment
Contains(text, fragment) == \E k \in DOMAIN text : text[k] = fragment

\* Lower-cased exception messages and user-facing texts of run().
MaxIterationsMessage == <<"agent loop hit ", "max_iterations", "=15">>
ContextOverflowMessage == <<"session token limit (100000) exceeded">>
SessionTimeoutMessage == <<"session timeout">>
ApiErrorMessage == <<"api error: ", "provider failure">>

\* The tool calls a model response can carry in the loop: an AUTO tool, a
\* tool whose registered default is CONFIRM, a shell command of each tier and
\* a tool that is not registered.
LoopCalls ==
  {[name |-> "file_read", input |-> [path |-> "f"]],
   [name |-> "file_delete", input |-> [path |-> "f"]],
   [name |-> "shell_execute", input |-> [command |-> <<"r","m"," ","-","r","f"," ","/">>]],
   [name |-> "shell_execute", input |-> [command |-> <<"m","k","d","i","r"," ","d">>]],
   [name |-> "nonexistent", input |-> [path |-> "f"]]}

\* The content lists of tool_use responses: 1..MaxBlocks tool_use blocks, the
\* k-th with id 100 + k.
RECURSIVE CallSeqs(_)
CallSeqs(n) ==
  IF n = 0 THEN {<<>>}
  ELSE LET shorter == CallSeqs(n - 1)
       IN shorter \cup {Append(s, c) : s \in {t \in shorter : Len(t) = n - 1}, c \in LoopCalls}

WithIds(calls) ==
  [k \in DOMAIN calls |-> [id |-> 100 + k, name |-> calls[k].name, input |-> calls[k].input]]

ToolUseContents == {WithIds(s) : s \in CallSeqs(MaxBlocks) \ {<<>>}}

\* response.usage of one model call.
Usages ==
  {[input_tokens |-> 100, output_tokens |-> 20],
   [input_tokens |-> 60000, output_tokens |-> 40000],
   [input_tokens |-> 90000, output_tokens |-> 9999]}

\* Model responses: stop_reason, content and usage.
Responses ==
  {[stop_reason |-> "end_turn", content |-> <<>>, text |-> "final", usage |-> u] : u \in Usages}
  \cup {[stop_reason |-> "max_tokens", content |-> <<>>, text |-> "partial", usage |-> u] : u \in Usages}
  \cup {[stop_reason |-> "tool_use", content |-> c, text |-> "", usage |-> u] :
          c \in ToolUseContents, u \in Usages}

\* How a run is started: by the Telegram gateway (a confirmation callback is
\* passed to run), by the scheduler (_cron_run_callback: the same runtime and
\* registry, no callback), or directly with another wiring (no registry or a
\* headless registry, a callback given to the constructor or none).
Launches ==
  {[entry |-> "telegram", registry |-> USER_SESSION, run_callback |-> TRUE, self_callback |-> FALSE],
   [entry |-> "cron", registry |-> USER_SESSION, run_callback |-> FALSE, self_callback |-> FALSE]}
  \cup {[entry |-> "direct", registry |-> r, run_callback |-> FALSE, self_callback |-> s] :
          r \in {"none", CRON_HEADLESS}, s \in BOOLEAN}

\* Outcomes of awaiting a tool handler under the per-tool timeout.
HandlerOutcomes == {"ok", "ok_long", "safety_violation", "crash", "timeout"}

VARIABLES
  launch,               \* the wiring of this run, an element of Launches
  pc,                   \* where run() is: loop, call, gather, confirming,
                        \* tier2_exec, returned, raised
  iterations,
  total_input_tokens,
  total_output_tokens,
  attempt,              \* attempt number inside _call_with_retry
  messages,             \* roles of the messages list
  response,             \* the last model response
  tier1_blocks,         \* _handle_tool_calls: AUTO blocks
  other_blocks,         \* _handle_tool_calls: <<block, tier>> of the others
  other_idx,            \* position of the sequential loop in other_blocks
  tasks,                \* gather: state of each _execute_tool task
  tool_results,         \* _handle_tool_calls: results built so far
  response_text,
  error_message,
  trace,                \* trace_data returned by run(), None before
  model_calls,          \* number of _call_with_retry invocations
  all_tool_use,         \* every response so far had stop_reason tool_use
  invoked,              \* ids of the blocks of this response whose handler ran
  confirmed             \* ids of the blocks of this response the user approved

loop_vars ==
  <<launch, pc, iterations, total_input_tokens, total_output_tokens, attempt,
    messages, response, tier1_blocks, other_blocks, other_idx, tasks,
    tool_results, response_text, error_message, trace, model_calls,
    all_tool_use, invoked, confirmed>>

vars == <<cl_vars, loop_vars, st_vars, ch_vars, ext_vars>>

\* What a step of the run, or of the classifier, leaves alone.
outside_loop == <<cl_vars, st_vars, ch_vars, ext_vars>>
outside_classifier == <<loop_vars, st_vars, ch_vars, ext_vars>>

\* What an operation on the user profile, or on the session mapping, leaves alone.
core_vars == <<cl_vars, loop_vars, st_vars, ch_vars>>
outside_profile == <<core_vars, sm_vars, tr_vars, cx_vars, rv_vars, su_vars, sh_vars, cr_vars, bt_vars, pk_vars, cf_vars, ix_vars, pm_vars>>
outside_sessions == <<core_vars, pr_vars, tr_vars, cx_vars, rv_vars, su_vars, sh_vars, cr_vars, bt_vars, pk_vars, cf_vars, ix_vars, pm_vars>>
outside_traces == <<core_vars, pr_vars, sm_vars, cx_vars, rv_vars, su_vars, sh_vars, cr_vars, bt_vars, pk_vars, cf_vars, ix_vars, pm_vars>>
outside_context == <<core_vars, pr_vars, sm_vars, tr_vars, rv_vars, su_vars, sh_vars, cr_vars, bt_vars, pk_vars, cf_vars, ix_vars, pm_vars>>
outside_retriever == <<core_vars, pr_vars, sm_vars, tr_vars, cx_vars, su_vars, sh_vars, cr_vars, bt_vars, pk_vars, cf_vars, ix_vars, pm_vars>>
outside_summary == <<core_vars, pr_vars, sm_vars, tr_vars, cx_vars, rv_vars, sh_vars, cr_vars, bt_vars, pk_vars, cf_vars, ix_vars, pm_vars>>
outside_shell == <<core_vars, pr_vars, sm_vars, tr_vars, cx_vars, rv_vars, su_vars, cr_vars, bt_vars, pk_vars, cf_vars, ix_vars, pm_vars>>
outside_cron == <<core_vars, pr_vars, sm_vars, tr_vars, cx_vars, rv_vars, su_vars, sh_vars, bt_vars, pk_vars, cf_vars, ix_vars, pm_vars>>
outside_startup == <<core_vars, pr_vars, sm_vars, tr_vars, cx_vars, rv_vars, su_vars, sh_vars, cr_vars, pk_vars, cf_vars, ix_vars, pm_vars>>
outside_profile_writes == <<core_vars, pr_vars, sm_vars, tr_vars, cx_vars, rv_vars, su_vars, sh_vars, cr_vars, bt_vars, cf_vars, ix_vars, pm_vars>>
outside_confirmation == <<core_vars, pr_vars, sm_vars, tr_vars, cx_vars, rv_vars, su_vars, sh_vars, cr_vars, bt_vars, pk_vars, ix_vars, pm_vars>>
outside_index == <<core_vars, pr_vars, sm_vars, tr_vars, cx_vars, rv_vars, su_vars, sh_vars, cr_vars, bt_vars, pk_vars, cf_vars, pm_vars>>
outside_persistence == <<core_vars, pr_vars, sm_vars, tr_vars, cx_vars, rv_vars, su_vars, sh_vars, cr_vars, bt_vars, pk_vars, cf_vars, ix_vars>>

NoResponse == [stop_reason |-> "none", content |-> <<>>, text |-> "",
               usage |-> [input_tokens |-> 0, output_tokens |-> 0]]

\* self._registry, when one is configured
HasRegistry == launch.registry # "none"

\* confirm_callback or self._confirm_callback
HasCallback_always == TRUE
HasCallback == launch.run_callback \/ launch.self_callback

\* Tier of each call of LoopCalls under each registry, as classify returns it.
LoopTiers ==
  [ctx \in {USER_SESSION, CRON_HEADLESS} |->
     [c \in LoopCalls |-> classify(AssembledRegistry(ctx), c.name, c.input)]]

TierOf(block) == LoopTiers[launch.registry][[name |-> block.name, input |-> block.input]]

\* while iterations < self._MAX_ITERATIONS
LoopCondition_inclusive(n) == n <= MAX_ITERATIONS
LoopCondition_early(n) == n < MAX_ITERATIONS - 1
LoopCondition(n) == n < MAX_ITERATIONS

\* total_input_tokens + total_output_tokens >= self._MAX_TOKENS_SESSION
OverBudget_strict(input_tokens, output_tokens) == input_tokens + output_tokens > MAX_TOKENS_SESSION
OverBudget(input_tokens, output_tokens) == input_tokens + output_tokens >= MAX_TOKENS_SESSION

\* success: error_message is None
Success_always(message) == TRUE
Success(message) == message = None

\* The outcomes of a handler that the except clauses of _execute_tool turn
\* into a text: TimeoutError of wait_for, and any Exception.
Catches_timeout_only(outcome) == outcome = "timeout"
Catches(outcome) == outcome \in {"timeout", "safety_violation", "crash"}

\* The text _execute_tool returns for an outcome of the handler.
ExecuteToolText(outcome) ==
  CASE outcome = "ok" -> <<"output">>
    [] outcome = "ok_long" -> <<"output[:10000]", "\n[... output truncated]">>
    [] outcome = "timeout" -> <<"Error:", " tool timed out after 30s">>
    [] OTHER -> <<"Error:", " ", outcome>>

\* One entry of tool_results; is_error is None when the key is absent.
ToolResult(block, content, is_error) ==
  [type |-> "tool_result", tool_use_id |-> block.id, content |-> content, is_error |-> is_error]

NoRegistryResult(block) ==
  ToolResult(block, <<"Error:", " no tool registry configured">>, Some(TRUE))

BlockedResult(block) ==
  ToolResult(block, <<"BLOQUEADO:", " Este comando esta bloqueado por seguridad.">>, Some(TRUE))

\* The entry built from the text that _handle_tier2 returned.
Tier2Result(block, result) ==
  ToolResult(block, result, Some(StartsWith(result, "Error:") \/ StartsWith(result, "CANCELADO")))

\* The entry built from one result of gather.
GatherResult(block, outcome) ==
  IF outcome \in {"ok", "ok_long"} \/ Catches(outcome)
  THEN ToolResult(block, ExecuteToolText(outcome), None)
  ELSE ToolResult(block, <<"Error:", " ", outcome>>, Some(TRUE))

HeadlessCancel == <<"CANCELADO", ": operacion requiere confirmacion del usuario (modo headless).">>
TimeoutCancel == <<"CANCELADO", ": tiempo de confirmacion agotado.">>
RefusalCancel == <<"CANCELADO", ": el usuario rechazo la operacion.">>

\* tier1_blocks and other_blocks of _handle_tool_calls.
Tier1Blocks_not_confirm(blocks) == SelectSeq(blocks, LAMBDA b : TierOf(b) # TIER_2_CONFIRM)
Tier1Blocks(blocks) == SelectSeq(blocks, LAMBDA b : TierOf(b) = TIER_1_AUTO)

OtherBlocks_confirm_only(blocks) ==
  LET rest == SelectSeq(blocks, LAMBDA b : TierOf(b) = TIER_2_CONFIRM)
  IN [k \in DOMAIN rest |-> [block |-> rest[k], tier |-> TierOf(rest[k])]]
OtherBlocks(blocks) ==
  LET rest == SelectSeq(blocks, LAMBDA b : TierOf(b) # TIER_1_AUTO)
  IN [k \in DOMAIN rest |-> [block |-> rest[k], tier |-> TierOf(rest[k])]]

\* The sequential loop over other_blocks from position k, up to its next
\* suspension: BLOCKED entries and CONFIRM entries without a callback are
\* answered at once, a CONFIRM entry with a callback waits for the user.
RECURSIVE RunOthers(_, _, _, _)
RunOthers(others, k, results, has_callback) ==
  IF k > Len(others) THEN [pc |-> "loop", idx |-> k, results |-> results]
  ELSE IF others[k].tier = TIER_3_BLOCKED
    THEN RunOthers(others, k + 1, Append(results, BlockedResult(others[k].block)), has_callback)
  ELSE IF others[k].tier = TIER_2_CONFIRM
    THEN IF has_callback
         THEN [pc |-> "confirming", idx |-> k, results |-> results]
         ELSE RunOthers(others, k + 1,
                        Append(results, Tier2Result(others[k].block, HeadlessCancel)), has_callback)
  ELSE RunOthers(others, k + 1, results, has_callback)

\* trace_data of run()
TraceData(its, input_tokens, output_tokens, message) ==
  [iterations |-> its, total_input_tokens |-> input_tokens,
   total_output_tokens |-> output_tokens, success |-> Success(message),
   error_message |-> message]

\* run() leaves the loop and returns (response_text, trace_data).
Return(its, input_tokens, output_tokens, message, text) ==
  /\ pc' = "returned"
  /\ iterations' = its
  /\ total_input_tokens' = input_tokens
  /\ total_output_tokens' = output_tokens
  /\ error_message' = message
  /\ response_text' = text
  /\ trace' = Some(TraceData(its, input_tokens, output_tokens, message))

\* The sequential loop resumes at position k with the given results; when it
\* is exhausted the results become the next user message.
ResumeOthers(others, k, results) ==
  LET run == RunOthers(others, k, results, HasCallback)
  IN /\ pc' = run.pc
     /\ other_idx' = run.idx
     /\ tool_results' = run.results
     /\ messages' = IF run.pc = "loop" THEN Append(messages, "user") ELSE messages

LoopInit ==
  /\ launch \in Launches
  /\ pc = "loop"
  /\ iterations = 0
  /\ total_input_tokens = 0
  /\ total_output_tokens = 0
  /\ attempt = 0
  /\ messages = <<"user">>
  /\ response = NoResponse
  /\ tier1_blocks = <<>>
  /\ other_blocks = <<>>
  /\ other_idx = 0
  /\ tasks = <<>>
  /\ tool_results = <<>>
  /\ response_text = <<>>
  /\ error_message = None
  /\ trace = None
  /\ model_calls = 0
  /\ all_tool_use = TRUE
  /\ invoked = {}
  /\ confirmed = {}

\* The loop condition holds and the budget is not spent: the model is called.
\* The locals of the previous iteration are dead from here on.
StartIteration ==
  /\ pc = "loop"
  /\ LoopCondition(iterations)
  /\ ~OverBudget(total_input_tokens, total_output_tokens)
  /\ iterations' = iterations + 1
  /\ pc' = "call"
  /\ attempt' = 1
  /\ model_calls' = model_calls + 1
  /\ response' = NoResponse
  /\ tier1_blocks' = <<>>
  /\ other_blocks' = <<>>
  /\ other_idx' = 0
  /\ tasks' = <<>>
  /\ tool_results' = <<>>
  /\ invoked' = {}
  /\ confirmed' = {}
  /\ UNCHANGED <<outside_loop, launch, total_input_tokens, total_output_tokens, messages,
                 response_text, error_message, trace, all_tool_use>>

\* The budget check of the iteration raises ContextOverflowError.
ContextOverflow ==
  /\ pc = "loop"
  /\ LoopCondition(iterations)
  /\ OverBudget(total_input_tokens, total_output_tokens)
  /\ Return(iterations + 1, total_input_tokens, total_output_tokens,
            Some(ContextOverflowMessage), <<"El contexto de la sesion es demasiado largo.">>)
  /\ UNCHANGED <<outside_loop, launch, attempt, messages, response, tier1_blocks, other_blocks,
                 other_idx, tasks, tool_results, model_calls, all_tool_use, invoked, confirmed>>

\* The loop condition fails: the else clause of the while raises
\* MaxIterationsError.
MaxIterations ==
  /\ pc = "loop"
  /\ ~LoopCondition(iterations)
  /\ Return(iterations, total_input_tokens, total_output_tokens,
            Some(MaxIterationsMessage), <<"Alcance el limite de iteraciones.">>)
  /\ UNCHANGED <<outside_loop, launch, attempt, messages, response, tier1_blocks, other_blocks,
                 other_idx, tasks, tool_results, model_calls, all_tool_use, invoked, confirmed>>

\* _handle_tool_calls up to its first suspension.
HandleToolCalls(blocks) ==
  IF ~HasRegistry
  THEN /\ tool_results' = [k \in DOMAIN blocks |-> NoRegistryResult(blocks[k])]
       /\ messages' = Append(Append(messages, "assistant"), "user")
       /\ pc' = "loop"
       /\ UNCHANGED <<tier1_blocks, other_blocks, other_idx, tasks, invoked>>
  ELSE LET tier1 == Tier1Blocks(blocks)
           others == OtherBlocks(blocks)
       IN /\ tier1_blocks' = tier1
          /\ other_blocks' = others
          /\ IF tier1 # <<>>
             THEN /\ pc' = "gather"
                  /\ tasks' = [k \in DOMAIN tier1 |-> "running"]
                  /\ invoked' = {tier1[k].id : k \in DOMAIN tier1}
                  /\ messages' = Append(messages, "assistant")
                  /\ UNCHANGED <<other_idx, tool_results>>
             ELSE /\ LET run == RunOthers(others, 1, <<>>, HasCallback)
                     IN /\ pc' = run.pc
                        /\ other_idx' = run.idx
                        /\ tool_results' = run.results
                        /\ messages' = IF run.pc = "loop"
                                       THEN Append(Append(messages, "assistant"), "user")
                                       ELSE Append(messages, "assistant")
                  /\ UNCHANGED <<tasks, invoked>>

\* The stop reason is tool_use: the loop goes on; any other stop
\* reason breaks out of it.
IsToolUse_always(stop_reason) == TRUE
IsToolUse(stop_reason) == stop_reason = "tool_use"

\* The model call returns a response.
CallSucceeds(r) ==
  /\ pc = "call"
  /\ response' = r
  /\ all_tool_use' = (all_tool_use /\ r.stop_reason = "tool_use")
  /\ IF IsToolUse(r.stop_reason)
     THEN /\ total_input_tokens' = total_input_tokens + r.usage.input_tokens
          /\ total_output_tokens' = total_output_tokens + r.usage.output_tokens
          /\ HandleToolCalls(r.content)
          /\ UNCHANGED <<iterations, response_text, error_message, trace>>
     ELSE /\ Return(iterations, total_input_tokens + r.usage.input_tokens,
                    total_output_tokens + r.usage.output_tokens, None, <<r.text>>)
          /\ messages' = Append(messages, "assistant")
          /\ UNCHANGED <<tier1_blocks, other_blocks, other_idx, tasks, tool_results, invoked>>
  /\ UNCHANGED <<outside_loop, launch, attempt, model_calls, confirmed>>

\* stop_after_attempt: no retry once this many attempts were made.
StopAfterAttempt_fourth(n) == n >= RETRY_ATTEMPTS + 1
StopAfterAttempt(n) == n >= RETRY_ATTEMPTS

\* The model call fails with a retried error (rate limit, server error,
\* timeout of the API): retried until the third attempt, then re-raised.
CallTransientError ==
  /\ pc = "call"
  /\ IF ~StopAfterAttempt(attempt)
     THEN /\ attempt' = attempt + 1
          /\ UNCHANGED <<pc, iterations, total_input_tokens, total_output_tokens,
                         response_text, error_message, trace>>
     ELSE /\ Return(iterations, total_input_tokens, total_output_tokens,
                    Some(ApiErrorMessage), <<"Hubo un error al comunicarme con Claude.">>)
          /\ UNCHANGED attempt
  /\ UNCHANGED <<outside_loop, launch, messages, response, tier1_blocks, other_blocks, other_idx,
                 tasks, tool_results, model_calls, all_tool_use, invoked, confirmed>>

\* The model call fails with an APIError that is not retried.
CallFatalError ==
  /\ pc = "call"
  /\ Return(iterations, total_input_tokens, total_output_tokens,
            Some(ApiErrorMessage), <<"Hubo un error al comunicarme con Claude.">>)
  /\ UNCHANGED <<outside_loop, launch, attempt, messages, response, tier1_blocks, other_blocks,
                 other_idx, tasks, tool_results, model_calls, all_tool_use, invoked, confirmed>>

\* One task of gather ends: the handler returned, raised or was timed out.
TaskFinish(i, outcome) ==
  /\ pc = "gather"
  /\ i \in DOMAIN tasks
  /\ tasks[i] = "running"
  /\ tasks' = [tasks EXCEPT ![i] = outcome]
  /\ UNCHANGED <<outside_loop, launch, pc, iterations, total_input_tokens, total_output_tokens,
                 attempt, messages, response, tier1_blocks, other_blocks, other_idx,
                 tool_results, response_text, error_message, trace, model_calls,
                 all_tool_use, invoked, confirmed>>

\* gather returns once every task it was given is done.
GatherReady_first(ts) == \E i \in DOMAIN ts : ts[i] # "running"
GatherReady(ts) == \A i \in DOMAIN ts : ts[i] # "running"

\* gather returns: one result per AUTO block, then the sequential loop.
GatherDone ==
  /\ pc = "gather"
  /\ GatherReady(tasks)
  /\ ResumeOthers(other_blocks, 1,
                  [k \in DOMAIN tier1_blocks |-> GatherResult(tier1_blocks[k], tasks[k])])
  /\ UNCHANGED <<outside_loop, launch, iterations, total_input_tokens, total_output_tokens,
                 attempt, response, tier1_blocks, other_blocks, tasks, response_text,
                 error_message, trace, model_calls, all_tool_use, invoked, confirmed>>

\* not confirmed
Denied_never(answer) == FALSE
Denied(answer) == ~answer

\* The confirmation callback answers within the confirmation timeout.
ConfirmReturns(answer) ==
  /\ pc = "confirming"
  /\ IF Denied(answer)
     THEN /\ ResumeOthers(other_blocks, other_idx + 1,
                          Append(tool_results,
                                 Tier2Result(other_blocks[other_idx].block, RefusalCancel)))
          /\ UNCHANGED <<invoked, confirmed>>
     ELSE /\ pc' = "tier2_exec"
          /\ invoked' = invoked \cup {other_blocks[other_idx].block.id}
          /\ confirmed' = IF answer THEN confirmed \cup {other_blocks[other_idx].block.id}
                          ELSE confirmed
          /\ UNCHANGED <<other_idx, tool_results, messages>>
  /\ UNCHANGED <<outside_loop, launch, iterations, total_input_tokens, total_output_tokens,
                 attempt, response, tier1_blocks, other_blocks, tasks, response_text,
                 error_message, trace, model_calls, all_tool_use>>

\* The callback does not answer within CONFIRMATION_TIMEOUT_SECONDS.
ConfirmTimeout ==
  /\ pc = "confirming"
  /\ ResumeOthers(other_blocks, other_idx + 1,
                  Append(tool_results, Tier2Result(other_blocks[other_idx].block, TimeoutCancel)))
  /\ UNCHANGED <<outside_loop, launch, iterations, total_input_tokens, total_output_tokens,
                 attempt, response, tier1_blocks, other_blocks, tasks, response_text,
                 error_message, trace, model_calls, all_tool_use, invoked, confirmed>>

\* The callback raises: no except clause of _handle_tier2 or run catches it.
ConfirmRaises ==
  /\ pc = "confirming"
  /\ pc' = "raised"
  /\ UNCHANGED <<outside_loop, launch, iterations, total_input_tokens, total_output_tokens,
                 attempt, messages, response, tier1_blocks, other_blocks, other_idx, tasks,
                 tool_results, response_text, error_message, trace, model_calls,
                 all_tool_use, invoked, confirmed>>

\* _execute_tool of an approved CONFIRM block ends.
Tier2ExecFinish(outcome) ==
  /\ pc = "tier2_exec"
  /\ IF outcome \in {"ok", "ok_long"} \/ Catches(outcome)
     THEN /\ ResumeOthers(other_blocks, other_idx + 1,
                          Append(tool_results,
                                 Tier2Result(other_blocks[other_idx].block,
                                             ExecuteToolText(outcome))))
          /\ UNCHANGED <<iterations, total_input_tokens, total_output_tokens,
                         response_text, error_message, trace>>
     ELSE IF outcome = "safety_violation"
     THEN /\ Return(iterations, total_input_tokens, total_output_tokens,
                    Some(<<"safety violation">>), <<"Operacion bloqueada por seguridad">>)
          /\ UNCHANGED <<other_idx, tool_results, messages>>
     ELSE /\ pc' = "raised"
          /\ UNCHANGED <<iterations, total_input_tokens, total_output_tokens, response_text,
                         error_message, trace, other_idx, tool_results, messages>>
  /\ UNCHANGED <<outside_loop, launch, attempt, response, tier1_blocks, other_blocks, tasks,
                 model_calls, all_tool_use, invoked, confirmed>>

\* The session timer expires while run() is suspended: the pending await is
\* cancelled and the timeout context raises TimeoutError.
SessionTimeout ==
  /\ pc \in {"call", "gather", "confirming", "tier2_exec"}
  /\ Return(iterations, total_input_tokens, total_output_tokens,
            Some(SessionTimeoutMessage), <<"Lo siento, la operacion tardo demasiado.">>)
  /\ UNCHANGED <<outside_loop, launch, attempt, messages, response, tier1_blocks, other_blocks,
                 other_idx, tasks, tool_results, model_calls, all_tool_use, invoked, confirmed>>

LoopNext ==
  \/ StartIteration
  \/ ContextOverflow
  \/ MaxIterations
  \/ \E r \in Responses : CallSucceeds(r)
  \/ CallTransientError
  \/ CallFatalError
  \/ \E i \in 1..MaxBlocks, outcome \in HandlerOutcomes : TaskFinish(i, outcome)
  \/ GatherDone
  \/ \E answer \in BOOLEAN : ConfirmReturns(answer)
  \/ ConfirmTimeout
  \/ ConfirmRaises
  \/ \E outcome \in HandlerOutcomes : Tier2ExecFinish(outcome)
  \/ SessionTimeout


(***************************************************************************)
(* Memory store (memory/store.py): the conversations table.                *)
(***************************************************************************)

\* Largest number of rows appended, and largest max_turns asked for.
MaxAppends == 4
MaxTurnsArg == 3

Sessions == {"s1", "s2"}
Roles == {"user", "assistant"}
Contents == {"a", "b"}

\* The rowid SQLite gives to an inserted row: one more than the largest.
NextRowid(rows) ==
  IF rows = {} THEN 1
  ELSE (CHOOSE r \in rows : \A q \in rows : q.rowid <= r.rowid).rowid + 1

\* ORDER BY rowid DESC LIMIT n
RECURSIVE OrderByRowidDesc(_, _)
OrderByRowidDesc(rows, n) ==
  IF n = 0 \/ rows = {} THEN <<>>
  ELSE LET top == CHOOSE r \in rows : \A q \in rows : q.rowid <= r.rowid
       IN <<top>> \o OrderByRowidDesc(rows \ {top}, n - 1)

\* reversed(rows)
Reversed(s) == [k \in DOMAIN s |-> s[Len(s) + 1 - k]]

\* ORDER BY rowid ASC LIMIT n, kept in that order
get_recent_history_oldest(rows, session_id, max_turns) ==
  LET all == Reversed(OrderByRowidDesc({r \in rows : r.session_id = session_id},
                                       Cardinality(rows)))
  IN [k \in 1..(IF max_turns < Len(all) THEN max_turns ELSE Len(all)) |->
        [role |-> all[k].role, content |-> all[k].content]]

\* MemoryStore.get_recent_history
get_recent_history(rows, session_id, max_turns) ==
  LET selected == OrderByRowidDesc({r \in rows : r.session_id = session_id}, max_turns)
      ordered == Reversed(selected)
  IN [k \in DOMAIN ordered |-> [role |-> ordered[k].role, content |-> ordered[k].content]]

StInit ==
  /\ st_rows = {}
  /\ st_log = [s \in Sessions |-> <<>>]
  /\ st_query = None
  /\ st_result = <<>>

\* MemoryStore.save_conversation_turn
SaveConversationTurn(session_id, role, content) ==
  /\ Cardinality(st_rows) < MaxAppends
  /\ st_rows' = st_rows \cup {[rowid |-> NextRowid(st_rows), session_id |-> session_id,
                               role |-> role, content |-> content]}
  /\ st_log' = [st_log EXCEPT ![session_id] = Append(@, [role |-> role, content |-> content])]
  /\ UNCHANGED <<st_query, st_result, cl_vars, loop_vars, ext_vars, ch_vars>>

\* A call of MemoryStore.get_recent_history returns.
GetRecentHistory(session_id, max_turns) ==
  /\ st_query' = Some([session_id |-> session_id, max_turns |-> max_turns])
  /\ st_result' = get_recent_history(st_rows, session_id, max_turns)
  /\ UNCHANGED <<st_rows, st_log, cl_vars, loop_vars, ext_vars, ch_vars>>

StNext ==
  \/ \E s \in Sessions, role \in Roles, content \in Contents : SaveConversationTurn(s, role, content)
  \/ \E s \in Sessions, n \in 0..MaxTurnsArg : GetRecentHistory(s, n)

(***************************************************************************)
(* Channels (channels/telegram.py, channels/terminal.py) and the scheduler *)
(* callback (__main__.py): what happens around one call of run().          *)
(***************************************************************************)

\* Largest number of messages or jobs handled.
MaxMessages == 2

Entries == {"telegram", "terminal", "cron"}

\* What run() hands back when it returns: the answer with a trace of
\* success, or the text of a turn-level failure with a trace of failure.
RunReturns ==
  {[text |-> "answer", trace_data |-> [success |-> TRUE]],
   [text |-> "turn failure text", trace_data |-> [success |-> FALSE]]}

\* trace_data = {}
EmptyTrace == [k \in {} |-> TRUE]

\* The statements that follow the call of run(), in program order.
Steps_send_first(entry) ==
  IF entry = "cron" THEN <<"send">>
  ELSE <<"send", "save_user", "save_assistant", "save_trace", "upsert">>
Steps(entry) ==
  IF entry = "cron" THEN <<"send">>
  ELSE <<"save_user", "save_assistant", "save_trace", "upsert", "send">>

\* The statements inside the try block that persists the conversation.
Persisting == {"save_user", "save_assistant", "save_trace"}

\* except Exception around the three store writes
CatchesPersistence_never(entry) == FALSE
CatchesPersistence(entry) == entry \in {"telegram", "terminal"}

\* The row save_trace writes for a run.
TraceRow(run, trace_data) ==
  [run |-> run,
   success |-> IF "success" \in DOMAIN trace_data THEN trace_data["success"] ELSE TRUE]

ChInit ==
  /\ ch_entry \in Entries
  /\ ch_pc = "idle"
  /\ ch_run = 0
  /\ ch_text = None
  /\ ch_trace = None
  /\ ch_step = 0
  /\ ch_failed = {}
  /\ ch_turns = <<>>
  /\ ch_traces = <<>>
  /\ ch_sent = <<>>

\* A message arrives, or a job fires, and run() is called.
Receive ==
  /\ ch_pc = "idle"
  /\ ch_run < MaxMessages
  /\ ch_run' = ch_run + 1
  /\ ch_pc' = "run"
  /\ ch_text' = None
  /\ ch_trace' = None
  /\ ch_step' = 0
  /\ UNCHANGED <<ch_entry, ch_failed, ch_turns, ch_traces, ch_sent, cl_vars, loop_vars, ext_vars, st_vars>>

\* run() returns (response_text, trace_data); the scheduler callback drops
\* the trace.
RunReturnsTo(r) ==
  /\ ch_pc = "run"
  /\ ch_text' = Some(r.text)
  /\ ch_trace' = IF ch_entry = "cron" THEN None ELSE Some(r.trace_data)
  /\ ch_pc' = "steps"
  /\ ch_step' = 1
  /\ UNCHANGED <<ch_entry, ch_run, ch_failed, ch_turns, ch_traces, ch_sent,
                 cl_vars, loop_vars, ext_vars, st_vars>>

\* run() raises: the gateway and the scheduler callback go on with a text of
\* their own, the terminal prints the error and returns.
RunRaises ==
  /\ ch_pc = "run"
  /\ IF ch_entry = "terminal"
     THEN /\ ch_pc' = "idle"
          /\ UNCHANGED <<ch_text, ch_trace, ch_step>>
     ELSE /\ ch_pc' = "steps"
          /\ ch_step' = 1
          /\ ch_text' = Some("unexpected error")
          /\ ch_trace' = IF ch_entry = "cron" THEN None ELSE Some(EmptyTrace)
  /\ UNCHANGED <<ch_entry, ch_run, ch_failed, ch_turns, ch_traces, ch_sent,
                 cl_vars, loop_vars, ext_vars, st_vars>>

\* The current statement completes.
StepOk ==
  /\ ch_pc = "steps"
  /\ LET step == Steps(ch_entry)[ch_step]
     IN /\ ch_turns' = CASE step = "save_user" -> Append(ch_turns, [run |-> ch_run, role |-> "user"])
                         [] step = "save_assistant" ->
                              Append(ch_turns, [run |-> ch_run, role |-> "assistant"])
                         [] OTHER -> ch_turns
        /\ ch_traces' = IF step = "save_trace"
                        THEN Append(ch_traces, TraceRow(ch_run, CHOOSE t \in ch_trace : TRUE))
                        ELSE ch_traces
        /\ ch_sent' = IF step = "send" THEN Append(ch_sent, ch_run) ELSE ch_sent
  /\ ch_step' = ch_step + 1
  /\ ch_pc' = IF ch_step = Len(Steps(ch_entry)) THEN "idle" ELSE "steps"
  /\ UNCHANGED <<ch_entry, ch_run, ch_text, ch_trace, ch_failed, cl_vars, loop_vars, ext_vars, st_vars>>

\* A store write raises: control leaves the try block.
StepFails ==
  /\ ch_pc = "steps"
  /\ Steps(ch_entry)[ch_step] \in Persisting
  /\ IF CatchesPersistence(ch_entry)
     THEN LET after == {k \in DOMAIN Steps(ch_entry) :
                          k > ch_step /\ Steps(ch_entry)[k] \notin Persisting}
          IN /\ ch_failed' = ch_failed \cup {ch_run}
             /\ IF after = {}
                THEN ch_pc' = "idle" /\ ch_step' = Len(Steps(ch_entry)) + 1
                ELSE ch_pc' = "steps" /\ ch_step' = CHOOSE k \in after : \A j \in after : k <= j
     ELSE /\ ch_pc' = "propagated"
          /\ UNCHANGED <<ch_failed, ch_step>>
  /\ UNCHANGED <<ch_entry, ch_run, ch_text, ch_trace, ch_turns, ch_traces, ch_sent,
                 cl_vars, loop_vars, ext_vars, st_vars>>

ChNext ==
  \/ Receive
  \/ \E r \in RunReturns : RunReturnsTo(r)
  \/ RunRaises
  \/ StepOk
  \/ StepFails

(***************************************************************************)
(* Memory store (memory/store.py): the user_profile table.  Confidences    *)
(* are counted in hundredths, times in days.                               *)
(***************************************************************************)

\* The clock stops at MaxNow; it advances by TickDays.
MaxNow == 45
TickDays == 15

Keys == {"editor", "language"}
Values == {"vim", "emacs"}
Confidences == {5, 12, 50, 60, 61}

\* The margin a new confidence must exceed, the decay of one pass, the floor
\* of a decayed confidence and of a kept entry, and the age of a decayed entry.
OVERWRITE_MARGIN == 10
DECAY_STEP == 5
DECAY_FLOOR == 10
DECAY_AGE_DAYS == 30

Max(a, b) == IF a >= b THEN a ELSE b

\* A write is dropped only when it does not reach the existing confidence.
KeepsExisting_without_margin(confidence, existing_confidence) ==
  confidence <= existing_confidence

\* if confidence <= existing_confidence + 0.1: return
KeepsExisting(confidence, existing_confidence) ==
  confidence <= existing_confidence + OVERWRITE_MARGIN

PrInit ==
  /\ pr_rows = [k \in {} |-> 0]
  /\ pr_now = 0
  /\ pr_call = [op |-> "none"]

\* INSERT OR REPLACE INTO user_profile (key, value, confidence, updated_at)
Replaced(rows, key, row) ==
  [k \in DOMAIN rows \cup {key} |-> IF k = key THEN row ELSE rows[k]]

\* MemoryStore.set_profile_key
SetProfileKey(key, value, confidence) ==
  /\ pr_call' = [op |-> "set_profile_key", key |-> key, value |-> value,
                 confidence |-> confidence]
  /\ IF key \in DOMAIN pr_rows /\ KeepsExisting(confidence, pr_rows[key].confidence)
     THEN pr_rows' = pr_rows
     ELSE pr_rows' = Replaced(pr_rows, key,
                       [value |-> value, confidence |-> confidence, updated_at |-> pr_now])
  /\ UNCHANGED <<pr_now, outside_profile>>

\* UPDATE user_profile SET confidence = MAX(0.1, confidence - 0.05), updated_at = now
\* WHERE updated_at < now - 30 days
Decayed(rows, now) ==
  [k \in DOMAIN rows |->
     IF rows[k].updated_at < now - DECAY_AGE_DAYS
     THEN [rows[k] EXCEPT !.confidence = Max(DECAY_FLOOR, @ - DECAY_STEP), !.updated_at = now]
     ELSE rows[k]]

\* DELETE FROM user_profile WHERE confidence < 0.1
Purged(rows) ==
  [k \in {q \in DOMAIN rows : ~(rows[q].confidence < DECAY_FLOOR)} |-> rows[k]]

\* MemoryStore.decay_profile_confidence
DecayProfileConfidence ==
  /\ pr_call' = [op |-> "decay_profile_confidence"]
  /\ pr_rows' = Purged(Decayed(pr_rows, pr_now))
  /\ UNCHANGED <<pr_now, outside_profile>>

\* Time passes.
PrTick ==
  /\ pr_now + TickDays <= MaxNow
  /\ pr_now' = pr_now + TickDays
  /\ UNCHANGED <<pr_rows, pr_call, outside_profile>>

PrNext ==
  \/ \E k \in Keys, v \in Values, c \in Confidences : SetProfileKey(k, v, c)
  \/ DecayProfileConfidence
  \/ PrTick

(***************************************************************************)
(* Session of a chat (channels/telegram.py, memory/store.py): the gateway  *)
(* handles updates as concurrent tasks, each of which asks for the session *)
(* of its chat.                                                            *)
(***************************************************************************)

\* Largest number of session ids created.
MaxSessions == 3

Chats == {1, 2}
Handlers == {"h1", "h2"}

IdleHandler == [pc |-> "idle", chat_id |-> 0, session_id |-> 0]

\* The function f with f[key] set to value.
Upsert(f, key, value) == [k \in DOMAIN f \cup {key} |-> IF k = key THEN value ELSE f[k]]

SmInit ==
  /\ sm_sessions = [c \in {} |-> 0]
  /\ sm_rows = [c \in {} |-> 0]
  /\ sm_handler = [h \in Handlers |-> IdleHandler]
  /\ sm_created = 0
  /\ sm_processed = {}

\* _get_or_create_session returns session_id to _process_message.
Returned(h, chat_id, session_id) ==
  /\ sm_handler' = [sm_handler EXCEPT ![h] = IdleHandler]
  /\ sm_processed' = sm_processed \cup {<<chat_id, session_id>>}

\* A message of the chat arrives: the cached session is returned, or the
\* stored one is awaited.
GetOrCreateSession(h, chat_id) ==
  /\ sm_handler[h].pc = "idle"
  /\ IF chat_id \in DOMAIN sm_sessions
     THEN Returned(h, chat_id, sm_sessions[chat_id])
     ELSE /\ sm_handler' = [sm_handler EXCEPT ![h] =
                               [pc |-> "get_session_id", chat_id |-> chat_id, session_id |-> 0]]
          /\ UNCHANGED sm_processed
  /\ UNCHANGED <<sm_sessions, sm_rows, sm_created, outside_sessions>>

\* get_session_id returns: an existing session is cached and returned, else a
\* new one is created and cached, and its save is awaited.
GetSessionIdReturns(h) ==
  LET chat_id == sm_handler[h].chat_id IN
  /\ sm_handler[h].pc = "get_session_id"
  /\ IF chat_id \in DOMAIN sm_rows
     THEN /\ sm_sessions' = Upsert(sm_sessions, chat_id, sm_rows[chat_id])
          /\ Returned(h, chat_id, sm_rows[chat_id])
          /\ UNCHANGED sm_created
     ELSE /\ sm_created < MaxSessions
          /\ sm_created' = sm_created + 1
          /\ sm_sessions' = Upsert(sm_sessions, chat_id, sm_created + 1)
          /\ sm_handler' = [sm_handler EXCEPT ![h] =
                              [pc |-> "save_session_mapping", chat_id |-> chat_id,
                               session_id |-> sm_created + 1]]
          /\ UNCHANGED sm_processed
  /\ UNCHANGED <<sm_rows, outside_sessions>>

\* save_session_mapping returns.
SaveSessionMappingReturns(h) ==
  /\ sm_handler[h].pc = "save_session_mapping"
  /\ sm_rows' = Upsert(sm_rows, sm_handler[h].chat_id, sm_handler[h].session_id)
  /\ Returned(h, sm_handler[h].chat_id, sm_handler[h].session_id)
  /\ UNCHANGED <<sm_sessions, sm_created, outside_sessions>>

\* A store call raises: the exception leaves _process_message.
SessionStoreRaises(h) ==
  /\ sm_handler[h].pc \in {"get_session_id", "save_session_mapping"}
  /\ sm_handler' = [sm_handler EXCEPT ![h] = IdleHandler]
  /\ UNCHANGED <<sm_sessions, sm_rows, sm_created, sm_processed, outside_sessions>>

\* The process restarts: the cache and the running handlers are lost.
Restart ==
  /\ sm_sessions' = [c \in {} |-> 0]
  /\ sm_handler' = [h \in Handlers |-> IdleHandler]
  /\ UNCHANGED <<sm_rows, sm_created, sm_processed, outside_sessions>>

SmNext ==
  \/ \E h \in Handlers, c \in Chats : GetOrCreateSession(h, c)
  \/ \E h \in Handlers : GetSessionIdReturns(h)
  \/ \E h \in Handlers : SaveSessionMappingReturns(h)
  \/ \E h \in Handlers : SessionStoreRaises(h)
  \/ Restart

(***************************************************************************)
(* Memory store (memory/store.py): the traces table.                       *)
(***************************************************************************)

\* Largest number of calls of save_trace.
MaxSaves == 4

TraceIds == {"t1", "t2"}

\* The values uuid.uuid4() returns, in order.
Uuids == <<"u1", "u2", "u3", "u4", "u5", "u6">>

\* trace_data dictionaries: a session and every subset of the other keys,
\* over a few values.
TraceDatas ==
  {[k \in keys |-> full[k]] :
     full \in [trace_id : TraceIds, session_id : {"s1"},
               total_input_tokens : {100}, success : BOOLEAN],
     keys \in {{"session_id"} \cup optional :
                optional \in SUBSET {"trace_id", "total_input_tokens", "success"}}}

\* dict.get(key, default)
DictGet(d, key, default) == IF key \in DOMAIN d THEN d[key] ELSE default

\* The values of the inserted row.
TraceValues(trace_data, uuid) ==
  [id |-> DictGet(trace_data, "trace_id", uuid),
   session_id |-> DictGet(trace_data, "session_id", ""),
   total_tokens |-> DictGet(trace_data, "total_input_tokens", 0)
                    + DictGet(trace_data, "total_output_tokens", 0),
   success |-> DictGet(trace_data, "success", TRUE)]

\* INSERT INTO traces, without a primary key
InsertOrReplace_insert(rows, row) == rows \cup {row}

\* INSERT OR REPLACE INTO traces: the row of the same id, if any, is replaced.
InsertOrReplace(rows, row) == {r \in rows : r.id # row.id} \cup {row}

TrInit ==
  /\ tr_rows = {}
  /\ tr_saved = <<>>
  /\ tr_uuids = 0

\* MemoryStore.save_trace
SaveTrace(trace_data) ==
  LET row == TraceValues(trace_data, Uuids[tr_uuids + 1]) IN
  /\ Len(tr_saved) < MaxSaves
  /\ tr_rows' = InsertOrReplace(tr_rows, row)
  /\ tr_saved' = Append(tr_saved, row.id)
  /\ tr_uuids' = tr_uuids + 1
  /\ UNCHANGED outside_traces

TrNext == \E d \in TraceDatas : SaveTrace(d)

(***************************************************************************)
(* Context builder (agent/context.py).  A text is its length in            *)
(* characters; a history message is [turn, chars], turn being its place    *)
(* in the fetched history.                                                 *)
(***************************************************************************)

\* Largest number of turns of a fetched history.
MaxHistory == 5

CHARS_PER_TOKEN == 4
SYSTEM_PROMPT_TOKENS == 800
RESPONSE_BUFFER_TOKENS == 4096
HISTORY_FLOOR == 4

Budgets == {4908, 4926}
TextChars == {8, 40}

\* _estimate_tokens
estimate_tokens(chars) == chars \div CHARS_PER_TOKEN

RECURSIVE SumTokens(_)
SumTokens(texts) ==
  IF texts = <<>> THEN 0 ELSE estimate_tokens(Head(texts)) + SumTokens(Tail(texts))

\* _estimate_message_tokens, on messages whose content is a string
estimate_message_tokens(history) ==
  SumTokens([k \in DOMAIN history |-> history[k].chars])

\* The result of a fetch that raised, and of one that returned value.
Raised == [failed |-> TRUE, value |-> None]
Fetched(value) == [failed |-> FALSE, value |-> Some(value)]

Histories ==
  UNION {{[k \in 1..n |-> [turn |-> k, chars |-> c[k]]] : c \in [1..n -> TextChars]} :
           n \in 0..MaxHistory}

\* The results asyncio.gather can give: get_profile_as_text and
\* get_session_summary return a text or None, the other two a list.
ProfileResults == {Raised, Fetched(None), Fetched(Some(8)), Fetched(Some(40))}
MemoriesResults == {Raised, Fetched(<<>>), Fetched(<<8>>), Fetched(<<8, 40>>), Fetched(<<40, 8, 8>>)}
SummaryResults == {Raised, Fetched(None), Fetched(Some(24))}
HistoryResults == {Raised} \cup {Fetched(h) : h \in Histories}

\* The stores are empty.
NothingStored ==
  [profile |-> Fetched(None), memories |-> Fetched(<<>>), summary |-> Fetched(None),
   history |-> Fetched(<<>>)]

\* The only element of a one-element set.
The(s) == CHOOSE v \in s : TRUE

\* isinstance(result, Exception) is taken to be false.
IsException_never(result) == FALSE

\* isinstance(result, Exception)
IsException(result) == result.failed

\* Tokens of an optional text, were every text estimated at no token.
OptionalTokens_zero(text) == 0

\* Tokens of an optional text.
OptionalTokens(text) == IF text = None THEN 0 ELSE estimate_tokens(The(text))

\* history.pop() while the total is over the budget and more than 4 turns are left
RECURSIVE TruncateHistory_newest(_, _, _)
TruncateHistory_newest(history, total_used, available) ==
  IF history # <<>> /\ total_used > available /\ Len(history) > HISTORY_FLOOR
  THEN TruncateHistory_newest(SubSeq(history, 1, Len(history) - 1),
                              total_used - estimate_tokens(history[Len(history)].chars), available)
  ELSE history

\* history.pop(0) while the total is over the budget and more than 4 turns are left
RECURSIVE TruncateHistory(_, _, _)
TruncateHistory(history, total_used, available) ==
  IF history # <<>> /\ total_used > available /\ Len(history) > HISTORY_FLOOR
  THEN TruncateHistory(Tail(history), total_used - estimate_tokens(Head(history).chars), available)
  ELSE history

\* ContextBuilder.build_context, from the results of the gather on
build_context(results, context_budget) ==
  LET taken(name, absent) ==
        IF IsException(results[name]) THEN absent ELSE The(results[name].value)
      profile0 == taken("profile", None)
      memories0 == IF IsException(results.memories) THEN None ELSE results.memories.value
      summary0 == taken("summary", None)
      history0 == taken("history", <<>>)
  IN
  \* an exception taken for a fetched value makes the estimate of its tokens raise
  IF \E name \in DOMAIN results : results[name].failed /\ ~IsException(results[name])
  THEN [raised |-> TRUE]
  ELSE
  LET available == context_budget - (SYSTEM_PROMPT_TOKENS + RESPONSE_BUFFER_TOKENS)
      profile_tokens == OptionalTokens(profile0)
      memories_tokens == IF memories0 = None THEN 0 ELSE SumTokens(The(memories0))
      summary_tokens == OptionalTokens(summary0)
      history_tokens == estimate_message_tokens(history0)
      total0 == profile_tokens + memories_tokens + summary_tokens + history_tokens
      over == total0 > available
      \* 1. drop the profile
      drop_profile == over /\ profile_tokens > 0 /\ total0 > available
      profile1 == IF drop_profile THEN None ELSE profile0
      total1 == IF drop_profile THEN total0 - profile_tokens ELSE total0
      \* 2. reduce the memories to the first
      reduce == over /\ memories0 # None /\ The(memories0) # <<>>
                /\ Len(The(memories0)) > 1 /\ total1 > available
      memories1 == IF reduce THEN Some(SubSeq(The(memories0), 1, 1)) ELSE memories0
      total2 == IF reduce
                THEN total1 - memories_tokens + estimate_tokens(The(memories0)[1])
                ELSE total1
      \* 3. drop the summary when there is history
      drop_summary == over /\ summary0 # None /\ history0 # <<>> /\ total2 > available
      summary1 == IF drop_summary THEN None ELSE summary0
      total3 == IF drop_summary THEN total2 - summary_tokens ELSE total2
      \* 4. truncate the history
      history1 == IF over THEN TruncateHistory(history0, total3, available) ELSE history0
  IN [raised |-> FALSE, profile |-> profile1, memories |-> memories1,
      summary |-> summary1, history |-> history1]

CxInit ==
  /\ cx_results \in [profile : ProfileResults, memories : MemoriesResults,
                     summary : SummaryResults, history : HistoryResults]
  /\ cx_budget \in Budgets
  /\ cx_out = None

\* build_context returns, or raises.
BuildContext ==
  /\ cx_out = None
  /\ cx_out' = Some(build_context(cx_results, cx_budget))
  /\ UNCHANGED <<cx_results, cx_budget, outside_context>>

CxNext == BuildContext

(***************************************************************************)
(* Semantic retriever (memory/retriever.py).  The index is the             *)
(* environment: its initialisation and its queries may raise, and a query  *)
(* for n results gives the n nearest documents, or all when there are      *)
(* fewer, and raises when n is not positive.                               *)
(***************************************************************************)

\* Largest number of documents in the collection, and largest top_k asked for.
MaxDocs == 6
MaxTopK == 7

MAX_RESULTS == 5

TopKs == (0 - 1)..MaxTopK

Min(a, b) == IF a <= b THEN a ELSE b

\* n_results = top_k
QueryLimit_uncapped(top_k) == top_k

\* n_results = min(top_k, 5)
QueryLimit(top_k) == Min(top_k, MAX_RESULTS)

\* SemanticRetriever._ensure_initialized
ensure_initialized(collection, init_ok) == collection \/ init_ok

\* collection.query raises: on its own, or because n_results is not positive
QueryRaises(n_results, query_raises) == query_raises \/ n_results <= 0

\* SemanticRetriever.search, given what the index does
search(collection, docs, top_k, init_ok, query_raises) ==
  IF ~ensure_initialized(collection, init_ok) THEN <<>>
  ELSE IF QueryRaises(QueryLimit(top_k), query_raises) THEN <<>>
  ELSE [k \in 1..Min(QueryLimit(top_k), docs) |-> [content |-> k]]

RvInit ==
  /\ rv_collection = FALSE
  /\ rv_docs \in 0..MaxDocs
  /\ rv_call = [top_k |-> 0, init_ok |-> FALSE, query_raises |-> FALSE]
  /\ rv_out = None

\* A call of SemanticRetriever.search returns.
SearchReturns(top_k, init_ok, query_raises) ==
  /\ rv_call' = [top_k |-> top_k, init_ok |-> ensure_initialized(rv_collection, init_ok),
                 query_raises |-> QueryRaises(QueryLimit(top_k), query_raises)]
  /\ rv_collection' = ensure_initialized(rv_collection, init_ok)
  /\ rv_out' = Some([raised |-> FALSE,
                     results |-> search(rv_collection, rv_docs, top_k, init_ok, query_raises)])
  /\ UNCHANGED <<rv_docs, outside_retriever>>

RvNext == \E top_k \in TopKs, init_ok \in BOOLEAN, query_raises \in BOOLEAN :
            SearchReturns(top_k, init_ok, query_raises)

(***************************************************************************)
(* Auto-summarization (memory/summarizer.py, and the transports that call  *)
(* it once should_summarize holds).  A text is its length in characters,   *)
(* a history its number of turns.                                          *)
(***************************************************************************)

\* Largest number of turns that ask for a summary.
MaxSummaryTurns == 2

MIN_SUMMARY_CHARS == 50
MAX_SUMMARY_CHARS == 800
MAX_RETRIES == 2
KEPT_TURNS == 5

HistoryTurns == {0, 3, 7}
ConversationChars == {49, 50}
SummaryChars == {0, 49, 50, 800, 801}

\* Every summary is taken.
ValidLength_any(chars) == TRUE

\* MIN_SUMMARY_CHARS <= len(summary) <= MAX_SUMMARY_CHARS
ValidLength(chars) == MIN_SUMMARY_CHARS <= chars /\ chars <= MAX_SUMMARY_CHARS

SuInit ==
  /\ su_pc = "idle"
  /\ su_turn = 0
  /\ su_fetched \in HistoryTurns
  /\ su_text \in IF su_fetched = 0 THEN {0} ELSE ConversationChars
  /\ su_attempt = 0
  /\ su_result = None
  /\ su_rows = {}
  /\ su_history = su_fetched

\* summarize_conversation is called: it returns None at once for an empty
\* history or a short conversation text, else it calls the model.
SummarizeConversation ==
  /\ su_pc = "idle"
  /\ su_turn < MaxSummaryTurns
  /\ su_turn' = su_turn + 1
  /\ su_attempt' = 0
  /\ su_result' = None
  /\ su_pc' = IF su_fetched = 0 \/ su_text < MIN_SUMMARY_CHARS THEN "returned" ELSE "create"
  /\ UNCHANGED <<su_fetched, su_text, su_rows, su_history, outside_summary>>

\* One round of the loop ends without a valid summary.
NextAttempt ==
  /\ su_attempt' = su_attempt + 1
  /\ su_pc' = IF su_attempt + 1 < MAX_RETRIES + 1 THEN "create" ELSE "returned"
  /\ UNCHANGED su_result

\* client.messages.create returns a summary of the given length.
CreateReturns(chars) ==
  /\ su_pc = "create"
  /\ IF ValidLength(chars)
     THEN /\ su_attempt' = su_attempt + 1
          /\ su_result' = Some(chars)
          /\ su_pc' = "returned"
     ELSE NextAttempt
  /\ UNCHANGED <<su_turn, su_fetched, su_text, su_rows, su_history, outside_summary>>

\* client.messages.create raises.
CreateRaises ==
  /\ su_pc = "create"
  /\ NextAttempt
  /\ UNCHANGED <<su_turn, su_fetched, su_text, su_rows, su_history, outside_summary>>

\* The transport takes what summarize_conversation returned: a summary is
\* saved and the history cut to its last five turns, unless the save raises.
TransportTakes(save_raises) ==
  /\ su_pc = "returned"
  /\ su_pc' = "done"
  /\ IF su_result # None /\ ~save_raises
     THEN /\ su_rows' = su_rows \cup su_result
          /\ su_history' = IF su_history > KEPT_TURNS THEN KEPT_TURNS ELSE su_history
     ELSE UNCHANGED <<su_rows, su_history>>
  /\ UNCHANGED <<su_turn, su_fetched, su_text, su_attempt, su_result, outside_summary>>

\* The next message whose history is long enough to be summarized.
NextMessage(turns, chars) ==
  /\ su_pc = "done"
  /\ su_pc' = "idle"
  /\ su_fetched' = turns
  /\ su_history' = turns
  /\ su_text' = IF turns = 0 THEN 0 ELSE chars
  /\ UNCHANGED <<su_turn, su_attempt, su_result, su_rows, outside_summary>>

SuNext ==
  \/ SummarizeConversation
  \/ \E chars \in SummaryChars : CreateReturns(chars)
  \/ CreateRaises
  \/ \E save_raises \in BOOLEAN : TransportTakes(save_raises)
  \/ \E turns \in HistoryTurns, chars \in ConversationChars : NextMessage(turns, chars)

(***************************************************************************)
(* Shell tool (tools/shell.py): the calls of shell_execute and the         *)
(* subprocess each of them starts.                                         *)
(***************************************************************************)

\* Largest number of calls of shell_execute.
MaxCalls == 3

MIN_TIMEOUT_SECONDS == 1
MAX_TIMEOUT_SECONDS == 120

TimeoutInputs == {0, 30, 500}

\* max(1, min(timeout_seconds, 120))
ClampTimeout(timeout_seconds) ==
  Max(MIN_TIMEOUT_SECONDS, Min(timeout_seconds, MAX_TIMEOUT_SECONDS))

ShInit == sh_calls = <<>>

\* shell_execute starts the subprocess and waits for proc.communicate().
ShellExecute(timeout_seconds) ==
  /\ Len(sh_calls) < MaxCalls
  /\ sh_calls' = Append(sh_calls, [pc |-> "communicate", proc |-> "running",
                                   timeout_seconds |-> ClampTimeout(timeout_seconds),
                                   result |-> "none"])
  /\ UNCHANGED outside_shell

\* The subprocess of a call exits.
ProcessExits(k) ==
  /\ sh_calls[k].proc = "running"
  /\ sh_calls' = [sh_calls EXCEPT ![k].proc = "exited"]
  /\ UNCHANGED outside_shell

\* proc.communicate() returns, the subprocess having exited and been waited for.
CommunicateReturns(k) ==
  /\ sh_calls[k].pc = "communicate"
  /\ sh_calls[k].proc = "exited"
  /\ sh_calls' = [sh_calls EXCEPT ![k].pc = "returned", ![k].proc = "reaped",
                                  ![k].result = "output"]
  /\ UNCHANGED outside_shell

\* asyncio.wait_for raises TimeoutError: communicate() is cancelled and the
\* timeout result is returned.
WaitForTimesOut(k) ==
  /\ sh_calls[k].pc = "communicate"
  /\ sh_calls[k].proc = "running"
  /\ sh_calls' = [sh_calls EXCEPT ![k].pc = "returned", ![k].result = "timed out"]
  /\ UNCHANGED outside_shell

ShNext ==
  \/ \E t \in TimeoutInputs : ShellExecute(t)
  \/ \E k \in DOMAIN sh_calls : ProcessExits(k)
  \/ \E k \in DOMAIN sh_calls : CommunicateReturns(k)
  \/ \E k \in DOMAIN sh_calls : WaitForTimesOut(k)

(***************************************************************************)
(* Cron tool (tools/cron.py).  A prompt is [chars, filler]: a sequence of  *)
(* characters followed by filler letters a, so that a prompt of 500        *)
(* characters is a short value.  The trigger library is the environment:   *)
(* it tells whether an expression is a valid crontab and how often it      *)
(* fires.                                                                  *)
(***************************************************************************)

MAX_PROMPT_CHARS == 500

JobIds == {"j1", "j2"}

Prompt(chars, filler) == [chars |-> chars, filler |-> filler]

\* Prompts: empty, blank, short, with an intent token in either case, with a
\* trailing token that strip() cuts, and of 500 and 501 characters.
Prompts ==
  {Prompt(<<>>, 0), Prompt(<<" ">>, 0), Prompt(<<"l", "s">>, 0),
   Prompt(<<"r", "M", " ">>, 0), Prompt(<<"r", "M", " ">>, 1),
   Prompt(<<"R", "m", " ", "x">>, 0), Prompt(<<"l", "s">>, 498),
   Prompt(<<"l", "s">>, 499), Prompt(<<" ", "l", "s">>, 498)}

\* Crontab expressions, with validity and minutes between two fire times.
CronExpressions ==
  {[text |-> "", valid |-> FALSE, minutes |-> 0],
   [text |-> "every minute", valid |-> FALSE, minutes |-> 0],
   [text |-> "* * * * *", valid |-> TRUE, minutes |-> 1],
   [text |-> "*/5 * * * *", valid |-> TRUE, minutes |-> 5],
   [text |-> "0 9 * * *", valid |-> TRUE, minutes |-> 1440]}

_BLOCKED_INTENT ==
  <<<<"r", "m", " ">>, <<"k", "i", "l", "l", " ">>, <<"s", "u", "d", "o", " ">>,
    <<"d", "e", "l", "e", "t", "e", " ">>, <<"r", "e", "m", "o", "v", "e", " ">>,
    <<"f", "o", "r", "m", "a", "t", " ">>, <<"d", "r", "o", "p", " ">>>>

\* len(prompt)
PromptLen(prompt) == Len(prompt.chars) + prompt.filler

\* prompt.strip(): the filler is not white space
StripPrompt(prompt) ==
  Prompt(IF prompt.filler = 0 THEN Strip(prompt.chars) ELSE LStrip(prompt.chars),
         prompt.filler)

\* The characters of the prompt up to the seventh filler letter: an intent
\* token has at most seven characters and is not made of filler.
Searched(prompt) ==
  prompt.chars \o [k \in 1..Min(prompt.filler, 7) |-> "a"]

\* str.lower()
Lower(s) == [k \in 1..Len(s) |-> Fold(s[k])]

\* sub in s
IsSubstring(sub, s) ==
  \E i \in 0..(Len(s) - Len(sub)) : SubSeq(s, i + 1, i + Len(sub)) = sub

\* blocked in prompt, on the prompt as typed
HasBlockedIntent_as_typed(prompt) ==
  \E k \in DOMAIN _BLOCKED_INTENT : IsSubstring(_BLOCKED_INTENT[k], Searched(prompt))

\* blocked in prompt_lower, for some blocked of _BLOCKED_INTENT
HasBlockedIntent(prompt) ==
  \E k \in DOMAIN _BLOCKED_INTENT : IsSubstring(_BLOCKED_INTENT[k], Lower(Searched(prompt)))

\* _create_job returns an error, or raises, before the job is added.
Rejected(cron, prompt) ==
  \/ cron.text = ""
  \/ PromptLen(prompt) = 0
  \/ PromptLen(prompt) > MAX_PROMPT_CHARS
  \/ HasBlockedIntent(prompt)
  \/ ~cron.valid

CrInit ==
  /\ cr_jobs = [j \in {} |-> 0]
  /\ cr_call = [action |-> "none", done |-> FALSE]

\* cron_schedule, action create
CreateJob(job_id, cron, raw_prompt) ==
  LET prompt == StripPrompt(raw_prompt) IN
  /\ cr_call' = [action |-> "create", done |-> ~Rejected(cron, prompt)]
  /\ cr_jobs' = IF Rejected(cron, prompt) THEN cr_jobs
                ELSE Upsert(cr_jobs, job_id, [prompt |-> prompt, cron |-> cron])
  /\ UNCHANGED outside_cron

\* cron_schedule, action delete
DeleteJob(job_id) ==
  /\ cr_call' = [action |-> "delete", done |-> job_id \in DOMAIN cr_jobs]
  /\ cr_jobs' = [j \in DOMAIN cr_jobs \ {job_id} |-> cr_jobs[j]]
  /\ UNCHANGED outside_cron

CrNext ==
  \/ \E j \in JobIds, cron \in CronExpressions, p \in Prompts : CreateJob(j, cron, p)
  \/ \E j \in JobIds : DeleteJob(j)

(***************************************************************************)
(* Startup (__main__.py, config.py).  The guard values are those of the    *)
(* settings object as get_settings returns it; the interpreter runs with   *)
(* assert statements compiled in (bt_debug) or, under -O, compiled out.    *)
(***************************************************************************)

MaxUpdates == 2

\* The guard values of AgentConfig as written in config.py.
Hardcoded ==
  [MAX_ITERATIONS |-> 15, MAX_TOKENS_SESSION |-> 100000,
   TIMEOUT_PER_TOOL_SECONDS |-> 30, TIMEOUT_SESSION_SECONDS |-> 300,
   MAX_TOOL_OUTPUT_CHARS |-> 10000, CONFIRMATION_TIMEOUT_SECONDS |-> 60]

\* Settings objects: each guard has its hardcoded value or another one.
GuardSettings ==
  [MAX_ITERATIONS : {15, 16}, MAX_TOKENS_SESSION : {100000, 100001},
   TIMEOUT_PER_TOOL_SECONDS : {30, 31}, TIMEOUT_SESSION_SECONDS : {300, 301},
   MAX_TOOL_OUTPUT_CHARS : {10000, 10001}, CONFIRMATION_TIMEOUT_SECONDS : {60, 61}]

\* The six comparisons of verify_guards_integrity
GuardsIntact(g) ==
  /\ g.MAX_ITERATIONS = 15
  /\ g.MAX_TOKENS_SESSION = 100000
  /\ g.TIMEOUT_PER_TOOL_SECONDS = 30
  /\ g.TIMEOUT_SESSION_SECONDS = 300
  /\ g.MAX_TOOL_OUTPUT_CHARS = 10000
  /\ g.CONFIRMATION_TIMEOUT_SECONDS = 60

BtInit ==
  /\ bt_pc = "start"
  /\ bt_debug \in BOOLEAN
  /\ bt_guards = Hardcoded
  /\ bt_exit = None
  /\ bt_handled = 0

\* settings = get_settings()
GetSettings ==
  /\ bt_pc = "start"
  /\ bt_guards' \in GuardSettings
  /\ bt_pc' = "settings"
  /\ UNCHANGED <<bt_debug, bt_exit, bt_handled>>
  /\ UNCHANGED outside_startup

\* verify_guards_integrity(settings): six assert statements.  A failing one
\* raises AssertionError, which main does not catch: the process ends with
\* exit status 1.  With asserts compiled out the function does nothing.
VerifyGuardsIntegrity ==
  /\ bt_pc = "settings"
  /\ IF bt_debug /\ ~GuardsIntact(bt_guards)
       THEN bt_pc' = "aborted" /\ bt_exit' = Some(1)
       ELSE bt_pc' = "verified" /\ bt_exit' = bt_exit
  /\ UNCHANGED <<bt_debug, bt_guards, bt_handled>>
  /\ UNCHANGED outside_startup

\* store, retriever, context builder, registry, runtime, gateway, scheduler
BuildComponents ==
  /\ bt_pc = "verified"
  /\ bt_pc' = "built"
  /\ UNCHANGED <<bt_debug, bt_guards, bt_exit, bt_handled>>
  /\ UNCHANGED outside_startup

\* await gateway.start()
GatewayStart ==
  /\ bt_pc = "built"
  /\ bt_pc' = "polling"
  /\ UNCHANGED <<bt_debug, bt_guards, bt_exit, bt_handled>>
  /\ UNCHANGED outside_startup

\* the gateway handles a message
HandleUpdate ==
  /\ bt_pc = "polling"
  /\ bt_handled < MaxUpdates
  /\ bt_handled' = bt_handled + 1
  /\ UNCHANGED <<bt_debug, bt_guards, bt_exit, bt_pc>>
  /\ UNCHANGED outside_startup

BtNext ==
  \/ GetSettings
  \/ VerifyGuardsIntegrity
  \/ BuildComponents
  \/ GatewayStart
  \/ HandleUpdate

(***************************************************************************)
(* Concurrent set_profile_key calls on one key (memory/store.py).  Each    *)
(* _execute holds the store lock for one statement: the SELECT and the     *)
(* INSERT OR REPLACE of a call are two steps, and steps of other calls may *)
(* run between them.                                                       *)
(***************************************************************************)

MaxKeyCalls == 2

Callers == {"c1", "c2"}

PkInit ==
  /\ pk_row = None
  /\ pk_call = [c \in Callers |-> [pc |-> "idle", confidence |-> 0, calls |-> 0]]

\* set_profile_key(key, value, confidence) is called: the SELECT is queued.
SetProfileKeyCalled(c, confidence) ==
  /\ pk_call[c].pc = "idle"
  /\ pk_call[c].calls < MaxKeyCalls
  /\ pk_call' = [pk_call EXCEPT ![c] = [pc |-> "select", confidence |-> confidence,
                                        calls |-> @.calls + 1]]
  /\ UNCHANGED pk_row
  /\ UNCHANGED outside_profile_writes

\* The SELECT returns: the call returns if the row it read keeps its value,
\* and goes on to the INSERT OR REPLACE otherwise.
SelectReturns(c) ==
  /\ pk_call[c].pc = "select"
  /\ pk_call' = [pk_call EXCEPT ![c].pc =
                   IF pk_row # None /\ KeepsExisting(pk_call[c].confidence, The(pk_row))
                   THEN "idle" ELSE "insert"]
  /\ UNCHANGED pk_row
  /\ UNCHANGED outside_profile_writes

\* The INSERT OR REPLACE runs.
InsertReturns(c) ==
  /\ pk_call[c].pc = "insert"
  /\ pk_row' = Some(pk_call[c].confidence)
  /\ pk_call' = [pk_call EXCEPT ![c].pc = "idle"]
  /\ UNCHANGED outside_profile_writes

PkNext ==
  \/ \E c \in Callers, confidence \in Confidences : SetProfileKeyCalled(c, confidence)
  \/ \E c \in Callers : SelectReturns(c)
  \/ \E c \in Callers : InsertReturns(c)

(***************************************************************************)
(* Telegram confirmation (channels/telegram.py): the waiting turn and the  *)
(* callback handlers are tasks of one event loop.  A handler runs without  *)
(* interruption up to its first await; event.set() makes the waiting turn  *)
(* ready to run, it does not run it.                                       *)
(***************************************************************************)

MaxConfirmations == 2
MaxPresses == 3

\* Tokens of the presses: those of the confirmations, numbered in the order
\* they are made, and 0, a token no confirmation ever had.
PressTokens == 0..MaxConfirmations

CfInit ==
  /\ cf_pending = {}
  /\ cf_set = {}
  /\ cf_results = [t \in {} |-> FALSE]
  /\ cf_wait = [pc |-> "idle", key |-> 0, result |-> FALSE]
  /\ cf_first = None
  /\ cf_made = 0
  /\ cf_presses = <<>>

\* _request_tier2_confirmation up to wait_for: the event and the result
\* False are stored under a new token and the keyboard is sent.
RequestTier2Confirmation ==
  /\ cf_wait.pc \in {"idle", "returned"}
  /\ cf_made < MaxConfirmations
  /\ LET callback_key == cf_made + 1 IN
       /\ cf_pending' = cf_pending \cup {callback_key}
       /\ cf_results' = Upsert(cf_results, callback_key, FALSE)
       /\ cf_wait' = [pc |-> "waiting", key |-> callback_key, result |-> FALSE]
  /\ cf_first' = None
  /\ cf_made' = cf_made + 1
  /\ UNCHANGED <<cf_set, cf_presses>>
  /\ UNCHANGED outside_confirmation

\* _handle_confirmation_callback up to its first await: a press for a token
\* with a pending event stores its answer and sets the event.
HandleConfirmationCallback(key, approved) ==
  /\ Len(cf_presses) < MaxPresses
  /\ cf_presses' = Append(cf_presses, [key |-> key, approved |-> approved])
  /\ IF key \in cf_pending
     THEN /\ cf_results' = Upsert(cf_results, key, approved)
          /\ cf_set' = cf_set \cup {key}
     ELSE UNCHANGED <<cf_results, cf_set>>
  /\ cf_first' = IF cf_wait.pc = "waiting" /\ cf_wait.key = key /\ cf_first = None
                 THEN Some(approved) ELSE cf_first
  /\ UNCHANGED <<cf_pending, cf_wait, cf_made>>
  /\ UNCHANGED outside_confirmation

\* The entries of the token are popped (the finally clause).
Popped(f, key) == [t \in DOMAIN f \ {key} |-> f[t]]

\* The waiting turn runs again after the event was set: it reads the stored
\* answer, pops the entries and returns.
WaitReturns ==
  /\ cf_wait.pc = "waiting"
  /\ cf_wait.key \in cf_set
  /\ cf_wait' = [cf_wait EXCEPT !.pc = "returned",
                                !.result = IF cf_wait.key \in DOMAIN cf_results
                                           THEN cf_results[cf_wait.key] ELSE FALSE]
  /\ cf_pending' = cf_pending \ {cf_wait.key}
  /\ cf_set' = cf_set \ {cf_wait.key}
  /\ cf_results' = Popped(cf_results, cf_wait.key)
  /\ UNCHANGED <<cf_first, cf_made, cf_presses>>
  /\ UNCHANGED outside_confirmation

\* wait_for times out: the result is False and the notice is being sent.
WaitTimesOut ==
  /\ cf_wait.pc = "waiting"
  /\ cf_wait.key \notin cf_set
  /\ cf_wait' = [cf_wait EXCEPT !.pc = "notice", !.result = FALSE]
  /\ UNCHANGED <<cf_pending, cf_set, cf_results, cf_first, cf_made, cf_presses>>
  /\ UNCHANGED outside_confirmation

\* The notice is sent: the entries are popped and False is returned.
NoticeSent ==
  /\ cf_wait.pc = "notice"
  /\ cf_wait' = [cf_wait EXCEPT !.pc = "returned"]
  /\ cf_pending' = cf_pending \ {cf_wait.key}
  /\ cf_set' = cf_set \ {cf_wait.key}
  /\ cf_results' = Popped(cf_results, cf_wait.key)
  /\ UNCHANGED <<cf_first, cf_made, cf_presses>>
  /\ UNCHANGED outside_confirmation

CfNext ==
  \/ RequestTier2Confirmation
  \/ \E key \in PressTokens, approved \in BOOLEAN : HandleConfirmationCallback(key, approved)
  \/ WaitReturns
  \/ WaitTimesOut
  \/ NoticeSent

(***************************************************************************)
(* Indexing of a message's turns (memory/retriever.py upsert_session, as   *)
(* channels/telegram.py calls it after each message).  A text is the       *)
(* number of the message it belongs to, its role and its length; a         *)
(* document is a slice of a text.                                          *)
(***************************************************************************)

MaxIndexed == 3

MIN_CHUNK_CHARS == 50
CHUNK_CHARS == 1200
CHUNK_OVERLAP_CHARS == 200

IndexSessions == {"s1", "s2"}

\* Lengths of a turn's content: too short to index, one chunk, two chunks.
ContentChars == {10, 50, 1201}

\* _chunk_text: the slices [start, end) of a text of the given length
RECURSIVE ChunksFrom(_, _)
ChunksFrom(chars, start) ==
  IF start < chars
  THEN <<[start |-> start, end |-> Min(start + CHUNK_CHARS, chars)]>>
       \o ChunksFrom(chars, start + CHUNK_CHARS - CHUNK_OVERLAP_CHARS)
  ELSE <<>>

chunk_text(chars) ==
  IF chars <= CHUNK_CHARS THEN <<[start |-> 0, end |-> chars]>> ELSE ChunksFrom(chars, 0)

\* The upserts of upsert_session, in order: (doc_id, document) for chunk j of
\* turn i, a turn shorter than MIN_CHUNK_CHARS being skipped.
RECURSIVE ChunkUpserts(_, _, _, _)
ChunkUpserts(session_id, i, turn, j) ==
  LET chunks == chunk_text(turn.chars) IN
  IF j > Len(chunks) THEN <<>>
  ELSE <<[doc_id |-> <<session_id, i, j - 1>>,
          document |-> [message |-> turn.message, role |-> turn.role, chunk |-> chunks[j]]]>>
       \o ChunkUpserts(session_id, i, turn, j + 1)

RECURSIVE TurnUpserts(_, _, _)
TurnUpserts(session_id, turns, i) ==
  IF i > Len(turns) THEN <<>>
  ELSE (IF turns[i].chars < MIN_CHUNK_CHARS THEN <<>>
        ELSE ChunkUpserts(session_id, i - 1, turns[i], 1))
       \o TurnUpserts(session_id, turns, i + 1)

\* collection.upsert for each of the upserts, in order
RECURSIVE ApplyUpserts(_, _)
ApplyUpserts(collection, upserts) ==
  IF upserts = <<>> THEN collection
  ELSE ApplyUpserts(Upsert(collection, Head(upserts).doc_id, Head(upserts).document),
                    Tail(upserts))

IxInit ==
  /\ ix_collection = [d \in {} |-> 0]
  /\ ix_indexed = {}
  /\ ix_messages = 0

\* The task created at the end of _process_message:
\* upsert_session(session_id, [user turn, assistant turn]).
UpsertSession(session_id, user_chars, assistant_chars, initialized) ==
  /\ ix_messages < MaxIndexed
  /\ ix_messages' = ix_messages + 1
  /\ LET turns == <<[message |-> ix_messages + 1, role |-> "user", chars |-> user_chars],
                    [message |-> ix_messages + 1, role |-> "assistant",
                     chars |-> assistant_chars]>>
         upserts == IF initialized THEN TurnUpserts(session_id, turns, 1) ELSE <<>>
     IN /\ ix_collection' = ApplyUpserts(ix_collection, upserts)
        /\ ix_indexed' = ix_indexed \cup {upserts[k].document : k \in DOMAIN upserts}
  /\ UNCHANGED outside_index

IxNext ==
  \E session_id \in IndexSessions, u \in ContentChars, a \in ContentChars,
     initialized \in BOOLEAN :
    UpsertSession(session_id, u, a, initialized)

(***************************************************************************)
(* Messages of one session handled concurrently (channels/telegram.py      *)
(* _process_message): the dispatcher runs a handler task per update, and a *)
(* handler gives up the event loop at every await.                         *)
(***************************************************************************)

MaxArrivals == 3

Arrivals == 1..MaxArrivals

PmInit ==
  /\ pm_pc = [m \in Arrivals |-> "waiting"]
  /\ pm_arrived = 0
  /\ pm_rows = <<>>

\* The next message of the session arrives; its handler builds the context
\* and awaits runtime.run.
MessageArrives ==
  /\ pm_arrived < MaxArrivals
  /\ pm_arrived' = pm_arrived + 1
  /\ pm_pc' = [pm_pc EXCEPT ![pm_arrived + 1] = "running"]
  /\ UNCHANGED pm_rows
  /\ UNCHANGED outside_persistence

\* runtime.run returns, or raises and the apology becomes the response.
RuntimeRunReturns(m) ==
  /\ pm_pc[m] = "running"
  /\ pm_pc' = [pm_pc EXCEPT ![m] = "save_user"]
  /\ UNCHANGED <<pm_arrived, pm_rows>>
  /\ UNCHANGED outside_persistence

\* await save_conversation_turn(session_id, "user", user_text): the row is
\* inserted, or the call raises and the persist block is left.
SaveUserTurn(m, saved) ==
  /\ pm_pc[m] = "save_user"
  /\ pm_rows' = IF saved THEN Append(pm_rows, [message |-> m, role |-> "user"]) ELSE pm_rows
  /\ pm_pc' = [pm_pc EXCEPT ![m] = IF saved THEN "save_assistant" ELSE "done"]
  /\ UNCHANGED pm_arrived
  /\ UNCHANGED outside_persistence

\* await save_conversation_turn(session_id, "assistant", response_text)
SaveAssistantTurn(m, saved) ==
  /\ pm_pc[m] = "save_assistant"
  /\ pm_rows' = IF saved THEN Append(pm_rows, [message |-> m, role |-> "assistant"])
                ELSE pm_rows
  /\ pm_pc' = [pm_pc EXCEPT ![m] = "done"]
  /\ UNCHANGED pm_arrived
  /\ UNCHANGED outside_persistence

PmNext ==
  \/ MessageArrives
  \/ \E m \in Arrivals : RuntimeRunReturns(m)
  \/ \E m \in Arrivals, saved \in BOOLEAN : SaveUserTurn(m, saved)
  \/ \E m \in Arrivals, saved \in BOOLEAN : SaveAssistantTurn(m, saved)

(***************************************************************************)
(* The classifier exercised on its own: one call is chosen and classified  *)
(* by classify_command and by a registry of each execution context.        *)
(***************************************************************************)

ClInit ==
  /\ cl_call \in UNION {{[name |-> n, input |-> i] : i \in ToolInputs(n)} : n \in ToolNames}
  /\ cl_tier = [x \in Contexts |-> "unset"]
  /\ cl_cmd_tier = "unset"

\* registry.classify(name, input) on a registry of the given context.
ClassifyCall(x) ==
  /\ cl_tier[x] = "unset"
  /\ cl_tier' = [cl_tier EXCEPT ![x] =
                   classify(AssembledRegistry(x), cl_call.name, cl_call.input)]
  /\ UNCHANGED <<cl_call, cl_cmd_tier, outside_classifier>>

\* classify_command(command) on the command of a shell call.
ClassifyCommand ==
  /\ cl_cmd_tier = "unset"
  /\ "command" \in DOMAIN cl_call.input
  /\ cl_cmd_tier' = classify_command(cl_call.input.command)
  /\ UNCHANGED <<cl_call, cl_tier, outside_classifier>>

ClNext ==
  \/ \E x \in Contexts : ClassifyCall(x)
  \/ ClassifyCommand

\* The state the loop variables keep while the classifier is exercised.
LoopIdle == LoopInit /\ launch.entry = "cron"

\* The states the store and the channels keep while they are not exercised.
StIdle == StInit
ChIdle == ChInit /\ ch_entry = "telegram"
PrIdle == PrInit
SmIdle == SmInit
TrIdle == TrInit
CxIdle == cx_results = NothingStored /\ cx_budget = 20000 /\ cx_out = None
RvIdle == RvInit /\ rv_docs = 0
SuIdle == SuInit /\ su_fetched = 0 /\ su_text = 0
ShIdle == ShInit
CrIdle == CrInit
BtIdle == bt_pc = "off" /\ bt_debug = TRUE /\ bt_guards = Hardcoded /\ bt_exit = None /\ bt_handled = 0
PkIdle == PkInit
CfIdle == CfInit
IxIdle == IxInit
PmIdle == PmInit
ExtIdle == PrIdle /\ SmIdle /\ TrIdle /\ CxIdle /\ RvIdle /\ SuIdle /\ ShIdle /\ CrIdle /\ BtIdle /\ PkIdle /\ CfIdle /\ IxIdle /\ PmIdle

InitClassify == ClInit /\ LoopIdle /\ StIdle /\ ChIdle /\ ExtIdle

SpecClassify == InitClassify /\ [][ClNext]_vars

\* The state the classifier variables keep while a run is observed.
ClIdle ==
  /\ cl_call = [name |-> "file_read", input |-> [path |-> "f"]]
  /\ cl_tier = [x \in Contexts |-> "unset"]
  /\ cl_cmd_tier = "unset"

Init == ClIdle /\ LoopInit /\ StIdle /\ ChIdle /\ ExtIdle

Next == LoopNext

Spec == Init /\ [][Next]_vars

InitStore == ClIdle /\ LoopIdle /\ StInit /\ ChIdle /\ ExtIdle

SpecStore == InitStore /\ [][StNext]_vars

InitChannel == ClIdle /\ LoopIdle /\ StIdle /\ ChInit /\ ExtIdle

SpecChannel == InitChannel /\ [][ChNext]_vars


CoreIdle == ClIdle /\ LoopIdle /\ StIdle /\ ChIdle

InitProfile == CoreIdle /\ PrInit /\ SmIdle /\ TrIdle /\ CxIdle /\ RvIdle /\ SuIdle /\ ShIdle /\ CrIdle /\ BtIdle /\ PkIdle /\ CfIdle /\ IxIdle /\ PmIdle

SpecProfile == InitProfile /\ [][PrNext]_vars

InitSessions == CoreIdle /\ PrIdle /\ SmInit /\ TrIdle /\ CxIdle /\ RvIdle /\ SuIdle /\ ShIdle /\ CrIdle /\ BtIdle /\ PkIdle /\ CfIdle /\ IxIdle /\ PmIdle

SpecSessions == InitSessions /\ [][SmNext]_vars

InitTraces == CoreIdle /\ PrIdle /\ SmIdle /\ TrInit /\ CxIdle /\ RvIdle /\ SuIdle /\ ShIdle /\ CrIdle /\ BtIdle /\ PkIdle /\ CfIdle /\ IxIdle /\ PmIdle

SpecTraces == InitTraces /\ [][TrNext]_vars

InitContext == CoreIdle /\ PrIdle /\ SmIdle /\ TrIdle /\ CxInit /\ RvIdle /\ SuIdle /\ ShIdle /\ CrIdle /\ BtIdle /\ PkIdle /\ CfIdle /\ IxIdle /\ PmIdle

SpecContext == InitContext /\ [][CxNext]_vars

InitRetriever == CoreIdle /\ PrIdle /\ SmIdle /\ TrIdle /\ CxIdle /\ RvInit /\ SuIdle /\ ShIdle /\ CrIdle /\ BtIdle /\ PkIdle /\ CfIdle /\ IxIdle /\ PmIdle

SpecRetriever == InitRetriever /\ [][RvNext]_vars

InitSummary == CoreIdle /\ PrIdle /\ SmIdle /\ TrIdle /\ CxIdle /\ RvIdle /\ SuInit /\ ShIdle /\ CrIdle /\ BtIdle /\ PkIdle /\ CfIdle /\ IxIdle /\ PmIdle

SpecSummary == InitSummary /\ [][SuNext]_vars

InitShell == CoreIdle /\ PrIdle /\ SmIdle /\ TrIdle /\ CxIdle /\ RvIdle /\ SuIdle /\ ShInit /\ CrIdle /\ BtIdle /\ PkIdle /\ CfIdle /\ IxIdle /\ PmIdle

SpecShell == InitShell /\ [][ShNext]_vars

InitCron == CoreIdle /\ PrIdle /\ SmIdle /\ TrIdle /\ CxIdle /\ RvIdle /\ SuIdle /\ ShIdle /\ CrInit /\ BtIdle /\ PkIdle /\ CfIdle /\ IxIdle /\ PmIdle

SpecCron == InitCron /\ [][CrNext]_vars

InitStartup == CoreIdle /\ PrIdle /\ SmIdle /\ TrIdle /\ CxIdle /\ RvIdle /\ SuIdle /\ ShIdle /\ CrIdle /\ BtInit /\ PkIdle /\ CfIdle /\ IxIdle /\ PmIdle

SpecStartup == InitStartup /\ [][BtNext]_vars

InitProfileWrites == CoreIdle /\ PrIdle /\ SmIdle /\ TrIdle /\ CxIdle /\ RvIdle /\ SuIdle /\ ShIdle /\ CrIdle /\ BtIdle /\ PkInit /\ CfIdle /\ IxIdle /\ PmIdle

SpecProfileWrites == InitProfileWrites /\ [][PkNext]_vars

InitConfirmation == CoreIdle /\ PrIdle /\ SmIdle /\ TrIdle /\ CxIdle /\ RvIdle /\ SuIdle /\ ShIdle /\ CrIdle /\ BtIdle /\ PkIdle /\ CfInit /\ IxIdle /\ PmIdle

SpecConfirmation == InitConfirmation /\ [][CfNext]_vars

InitIndex == CoreIdle /\ PrIdle /\ SmIdle /\ TrIdle /\ CxIdle /\ RvIdle /\ SuIdle /\ ShIdle /\ CrIdle /\ BtIdle /\ PkIdle /\ CfIdle /\ IxInit /\ PmIdle

SpecIndex == InitIndex /\ [][IxNext]_vars

InitPersistence == CoreIdle /\ PrIdle /\ SmIdle /\ TrIdle /\ CxIdle /\ RvIdle /\ SuIdle /\ ShIdle /\ CrIdle /\ BtIdle /\ PkIdle /\ CfIdle /\ IxIdle /\ PmInit

SpecPersistence == InitPersistence /\ [][PmNext]_vars

(***************************************************************************)
(* Properties.                                                             *)
(***************************************************************************)

\* The tool_use blocks of the last response, and what the run did with them.
Blocks == {response.content[k] : k \in DOMAIN response.content}
ResultsFor(block) == {k \in DOMAIN tool_results : tool_results[k].tool_use_id = block.id}
IsBlocked(block) == HasRegistry /\ TierOf(block) = TIER_3_BLOCKED
IsConfirm(block) == HasRegistry /\ TierOf(block) = TIER_2_CONFIRM
Handled == pc = "loop" /\ response.stop_reason = "tool_use"
Continues == pc' \in {"loop", "confirming"}
TotalTokens == total_input_tokens + total_output_tokens
Answered == Cardinality({k \in DOMAIN messages : messages[k] = "assistant"})
FailureOutcomes == {"safety_violation", "crash", "timeout"}

\* C1: the handler of a block the registry classifies BLOCKED (an
\* unregistered tool name included) is never invoked; once the response is
\* handled the block has one tool_result and it carries the error flag; and
\* the step that answers a blocked block does not end the run: the loop goes
\* on to the rest of the response and to the next model call.
C1_BlockedNeverInvoked ==
  /\ [](\A b \in Blocks : IsBlocked(b) => b.id \notin invoked)
  /\ [](Handled =>
          \A b \in Blocks : IsBlocked(b) =>
             /\ Cardinality(ResultsFor(b)) = 1
             /\ \A k \in ResultsFor(b) : tool_results[k].is_error = Some(TRUE))
  /\ [][(\E b \in Blocks' : IsBlocked(b)' /\ ResultsFor(b)' # {} /\ ResultsFor(b) = {})
          => Continues]_vars

C1_Witness ==
  /\ Handled
  /\ \E b \in Blocks : IsBlocked(b) /\ b.name = "nonexistent" /\ ResultsFor(b) # {}
  /\ \E b \in Blocks : IsBlocked(b) /\ b.name = "shell_execute" /\ ResultsFor(b) # {}

\* C2: the handler of a CONFIRM block is invoked only if the callback
\* returned true for that block; a refusal or a confirmation timeout leaves
\* the handler uninvoked, appends a CANCELADO result for the block and does
\* not end the run; without a callback every CONFIRM block of a handled
\* response has a CANCELADO result and no invoked handler.
C2_ConfirmGate ==
  /\ [](\A b \in Blocks : (IsConfirm(b) /\ b.id \in invoked) => b.id \in confirmed)
  /\ [][(ConfirmTimeout \/ ConfirmReturns(FALSE)) =>
          LET b == other_blocks[other_idx].block
              added == tool_results'[Len(tool_results) + 1]
          IN /\ Continues
             /\ b.id \notin invoked'
             /\ Len(tool_results') > Len(tool_results)
             /\ added.tool_use_id = b.id
             /\ StartsWith(added.content, "CANCELADO")
             /\ added.is_error = Some(TRUE)]_vars
  /\ []((Handled /\ ~HasCallback) =>
          \A b \in Blocks : IsConfirm(b) =>
             /\ b.id \notin invoked
             /\ \E k \in ResultsFor(b) : tool_results[k].content = HeadlessCancel)

C2_Witness ==
  /\ Handled
  /\ confirmed # {}
  /\ \E k \in DOMAIN tool_results : tool_results[k].content = RefusalCancel

\* C5: in a run started by the scheduler no handler of a call whose
\* user-session tier is CONFIRM is invoked; every invoked handler belongs to
\* a call of tier AUTO.
C5_CronRunsOnlyAuto ==
  launch.entry = "cron" =>
    \A b \in Blocks :
       LET tier == LoopTiers[USER_SESSION][[name |-> b.name, input |-> b.input]]
       IN /\ tier = TIER_2_CONFIRM => b.id \notin invoked
          /\ b.id \in invoked => tier = TIER_1_AUTO

C5_Witness ==
  /\ launch.entry = "cron"
  /\ Handled
  /\ invoked # {}
  /\ \E b \in Blocks :
        /\ b.name = "file_delete"
        /\ \E k \in ResultsFor(b) : tool_results[k].content = HeadlessCancel

\* C6: the iteration counter and the number of model calls never exceed
\* MAX_ITERATIONS, and neither does the iterations value of a returned trace.
C6_IterationsBounded ==
  /\ iterations <= MAX_ITERATIONS
  /\ model_calls <= MAX_ITERATIONS
  /\ \A t \in trace : t.iterations <= MAX_ITERATIONS

C6_Witness ==
  /\ pc = "returned"
  /\ model_calls = MAX_ITERATIONS
  /\ \E t \in trace : t.iterations = MAX_ITERATIONS

\* The run is over and every model call it made was answered with tool_use.
AlwaysToolUse ==
  /\ pc \in {"returned", "raised"}
  /\ model_calls >= 1
  /\ Answered = model_calls
  /\ all_tool_use

EndsByMaxIterations ==
  /\ pc = "returned"
  /\ model_calls = MAX_ITERATIONS
  /\ \E t \in trace : ~t.success /\ t.error_message # None
                      /\ \A m \in t.error_message : Contains(m, "max_iterations")

C8_TokenCeiling ==
  /\ [](pc = "call" => TotalTokens < MAX_TOKENS_SESSION)
  /\ [][(pc = "loop" /\ iterations < MAX_ITERATIONS /\ TotalTokens >= MAX_TOKENS_SESSION) =>
          /\ pc' = "returned"
          /\ model_calls' = model_calls
          /\ error_message' = Some(ContextOverflowMessage)
          /\ \E t \in trace' : ~t.success]_vars

C8_Witness ==
  /\ pc = "returned"
  /\ error_message = Some(ContextOverflowMessage)
  /\ TotalTokens = MAX_TOKENS_SESSION
  /\ model_calls = 1

\* A turn-level failure: the iteration limit, the token ceiling, the session
\* timer at a suspension point, a provider error that is not retried or that
\* fails the last attempt.
TurnFailure ==
  \/ MaxIterations
  \/ ContextOverflow
  \/ SessionTimeout
  \/ CallFatalError
  \/ (CallTransientError /\ attempt = RETRY_ATTEMPTS)

C10_ToolFailuresContained ==
  /\ [][\A outcome \in FailureOutcomes : Tier2ExecFinish(outcome) =>
          LET b == other_blocks[other_idx].block
              added == tool_results'[Len(tool_results) + 1]
          IN /\ Continues
             /\ Len(tool_results') > Len(tool_results)
             /\ added.tool_use_id = b.id
             /\ StartsWith(added.content, "Error:")]_vars
  /\ [][GatherDone =>
          /\ Continues
          /\ Len(tool_results') >= Len(tier1_blocks)
          /\ \A k \in DOMAIN tier1_blocks :
                /\ tool_results'[k].tool_use_id = tier1_blocks[k].id
                /\ tasks[k] \in FailureOutcomes => StartsWith(tool_results'[k].content, "Error:")
                /\ tasks[k] \notin FailureOutcomes =>
                     tool_results'[k].content = ExecuteToolText(tasks[k])]_vars
  /\ [](Handled => \A b \in Blocks : Cardinality(ResultsFor(b)) = 1)

C10_Witness ==
  /\ Handled
  /\ \E k \in DOMAIN tool_results : tool_results[k].content = ExecuteToolText("crash")
  /\ \E k \in DOMAIN tool_results : tool_results[k].content = ExecuteToolText("ok")

\* The command of the call being classified.
ClCommand == cl_call.input.command

\* C3 as stated: a command that matches a TIER-3 pattern is classified
\* BLOCKED by classify_command.
C3_Original ==
  (cl_cmd_tier # "unset" /\ AnySearch(TIER3_PATTERNS, ClCommand))
     => cl_cmd_tier = TIER_3_BLOCKED

\* C3, amended: a command whose whitespace-trimmed form matches a TIER-3
\* pattern is classified BLOCKED by classify_command, whatever allowlisted
\* head or TIER-2 signal it also has.
C3_Amended ==
  (cl_cmd_tier # "unset" /\ AnySearch(TIER3_PATTERNS, Strip(ClCommand)))
     => cl_cmd_tier = TIER_3_BLOCKED

C3_Witness ==
  /\ cl_cmd_tier = TIER_3_BLOCKED
  /\ AnySearch(TIER3_PATTERNS, Strip(ClCommand))
  /\ AnyMatch(TIER1_PATTERNS, Strip(ClCommand))
  /\ ~AnySearch(TIER2_SIGNALS, Strip(ClCommand))

\* The user-session tier with CONFIRM replaced by BLOCKED.
Promote(t) == IF t = TIER_2_CONFIRM THEN TIER_3_BLOCKED ELSE t

\* C4 as stated: the tier classify returns in headless context is the
\* user-session tier with CONFIRM replaced by BLOCKED.
C4_Original ==
  (cl_tier[USER_SESSION] # "unset" /\ cl_tier[CRON_HEADLESS] # "unset")
     => cl_tier[CRON_HEADLESS] = Promote(cl_tier[USER_SESSION])

\* The handler of the block ran and failed: the result of the block is the
\* text _execute_tool returns for a safety violation, a crash or a timeout.
HandlerFailed(block) ==
  /\ block.id \in invoked
  /\ \E k \in ResultsFor(block), outcome \in FailureOutcomes :
        tool_results[k].content = ExecuteToolText(outcome)

\* C11 as stated: once a response is handled, the tool_result of every block
\* whose handler failed (safety violation, crash or per-tool timeout) carries
\* the error flag, for AUTO blocks and for approved CONFIRM blocks alike.
C11_Original ==
  Handled =>
    \A b \in Blocks : HandlerFailed(b) =>
       \A k \in ResultsFor(b) : tool_results[k].is_error = Some(TRUE)

\* C12: once a tool_use response is handled, the message appended after the
\* assistant message is a user message whose tool_results hold exactly one
\* entry per tool_use block of the response and nothing else: every block id
\* has one result, every result carries the id of a block, a blocked block
\* is answered by the blocked text and, without a registry, every block by
\* the no-registry error.
C12_OneResultPerBlock ==
  Handled =>
    /\ Len(messages) >= 2
    /\ messages[Len(messages)] = "user"
    /\ messages[Len(messages) - 1] = "assistant"
    /\ Len(tool_results) = Len(response.content)
    /\ \A k \in DOMAIN tool_results : \E b \in Blocks : tool_results[k].tool_use_id = b.id
    /\ \A b \in Blocks :
          /\ Cardinality(ResultsFor(b)) = 1
          /\ IsBlocked(b) => \A k \in ResultsFor(b) : tool_results[k] = BlockedResult(b)
          /\ ~HasRegistry => \A k \in ResultsFor(b) : tool_results[k] = NoRegistryResult(b)

C12_Witness ==
  /\ Handled
  /\ HasRegistry
  /\ \E b \in Blocks : TierOf(b) = TIER_1_AUTO
  /\ \E b \in Blocks : TierOf(b) = TIER_3_BLOCKED
  /\ Len(tool_results) = 2

\* C13 as stated: the tool_results of a handled response are in the order
\* of the tool_use blocks of the response.
C13_Original ==
  Handled =>
    /\ Len(tool_results) = Len(response.content)
    /\ \A k \in DOMAIN tool_results : tool_results[k].tool_use_id = response.content[k].id

\* C14: while gather is pending every AUTO block of the response has been
\* started and nothing else has: no result exists, no confirmation was asked
\* and no other handler runs. A confirmation wait, the execution of a CONFIRM
\* block and every result of a CONFIRM or BLOCKED block come only when all
\* AUTO tasks are done. The CONFIRM and BLOCKED blocks keep the order of the
\* response and are answered one at a time in that order: the results after
\* those of gather are those of the first other blocks, and at a suspension
\* exactly the blocks before the current one are answered and no later
\* handler has started.
C14_AutoThenSerial ==
  LET n1 == Len(tier1_blocks)
      tier1_ids == {tier1_blocks[k].id : k \in DOMAIN tier1_blocks}
  IN /\ pc = "gather" =>
          /\ tasks # <<>>
          /\ DOMAIN tasks = DOMAIN tier1_blocks
          /\ invoked = tier1_ids
          /\ tool_results = <<>>
          /\ confirmed = {}
     /\ (HasRegistry /\ (pc \in {"confirming", "tier2_exec"} \/ tool_results # <<>>)) =>
          /\ \A i \in DOMAIN tasks : tasks[i] # "running"
          /\ Len(tool_results) >= n1
          /\ \A k \in (n1 + 1)..Len(tool_results) :
                /\ k - n1 \in DOMAIN other_blocks
                /\ tool_results[k].tool_use_id = other_blocks[k - n1].block.id
     /\ \A i, j \in DOMAIN other_blocks :
          i < j => other_blocks[i].block.id < other_blocks[j].block.id
     /\ pc \in {"confirming", "tier2_exec"} =>
          /\ other_idx \in DOMAIN other_blocks
          /\ other_blocks[other_idx].tier = TIER_2_CONFIRM
          /\ Len(tool_results) = n1 + other_idx - 1
          /\ invoked \subseteq tier1_ids \cup {other_blocks[j].block.id : j \in 1..other_idx}
          /\ (other_blocks[other_idx].block.id \in invoked) <=> (pc = "tier2_exec")

C14_Witness ==
  /\ pc = "confirming"
  /\ Len(tier1_blocks) = 1
  /\ tasks = <<"ok">>
  /\ Len(tool_results) = 1
  /\ other_idx = 1

\* C15: the step in which a model call is answered with end_turn returns
\* from run(): the iterations made are the responses received (the k
\* tool_use responses and this one), one model call each and at most
\* MAX_ITERATIONS, the trace reports them with success true and the returned
\* text is the text of that response; and nothing happens after run() has
\* returned.
C15_EndTurnCompletes ==
  /\ [][(pc = "call" /\ response'.stop_reason = "end_turn") =>
          /\ pc' = "returned"
          /\ iterations' = Answered'
          /\ model_calls' = Answered'
          /\ iterations' <= MAX_ITERATIONS
          /\ response_text' = <<response'.text>>
          /\ error_message' = None
          /\ \E t \in trace' : t.success /\ t.iterations = iterations']_vars
  /\ [][pc # "returned"]_vars

C15_Witness ==
  /\ pc = "returned"
  /\ response.stop_reason = "end_turn"
  /\ iterations = 3
  /\ Answered = 3
  /\ response_text = <<"final">>
  /\ \E t \in trace : t.success

\* C16: the attempts of one model call never exceed RETRY_ATTEMPTS; a new
\* attempt is made only by a retried failure of an attempt before the last;
\* a failure that is not retried ends the call on the attempt on which it
\* occurs and run() reports the provider error; and an end_turn answer to a
\* second or third attempt completes the turn with success true.
C16_RetryPolicy ==
  /\ [](attempt <= RETRY_ATTEMPTS)
  /\ [][(pc = "call" /\ attempt' # attempt) =>
          /\ CallTransientError
          /\ attempt < RETRY_ATTEMPTS
          /\ attempt' = attempt + 1
          /\ pc' = "call"
          /\ model_calls' = model_calls]_vars
  /\ [][CallFatalError =>
          /\ attempt' = attempt
          /\ pc' = "returned"
          /\ error_message' = Some(ApiErrorMessage)]_vars
  /\ [][(pc = "call" /\ attempt >= 2 /\ response'.stop_reason = "end_turn") =>
          /\ pc' = "returned"
          /\ \E t \in trace' : t.success]_vars

C16_Witness ==
  /\ pc = "returned"
  /\ attempt = RETRY_ATTEMPTS
  /\ response.stop_reason = "end_turn"
  /\ \E t \in trace : t.success

\* The rows a run left in the store, and whether its response was delivered.
TraceRowsOf(run) == {k \in DOMAIN ch_traces : ch_traces[k].run = run}
TurnSaved(run, role) == \E k \in DOMAIN ch_turns : ch_turns[k] = [run |-> run, role |-> role]
Sent(run) == \E k \in DOMAIN ch_sent : ch_sent[k] = run

\* C17 as stated: once a message or a job is dealt with, every run made so
\* far without a failed store write has exactly one row in the traces table;
\* and a trace row of the current run exists only when its response has been
\* computed.
C17_Original ==
  /\ ch_pc = "idle" =>
       \A run \in 1..ch_run : run \notin ch_failed => Cardinality(TraceRowsOf(run)) = 1
  /\ (ch_run >= 1 /\ TraceRowsOf(ch_run) # {}) => ch_text # None

\* C18 as stated: a response is delivered only when the user turn and the
\* assistant turn of its run are in the store.
C18_Original ==
  \A run \in 1..ch_run : Sent(run) => (TurnSaved(run, "user") /\ TurnSaved(run, "assistant"))

\* C18, amended: for a Telegram or terminal message during which no store
\* write failed, the response is delivered only when the user turn and the
\* assistant turn of the message are in the store.
C18_Amended ==
  ch_entry \in {"telegram", "terminal"} =>
    \A run \in 1..ch_run :
       (Sent(run) /\ run \notin ch_failed) =>
          (TurnSaved(run, "user") /\ TurnSaved(run, "assistant"))

C18_Witness ==
  /\ ch_entry = "telegram"
  /\ ch_pc = "idle"
  /\ Sent(1)
  /\ 1 \notin ch_failed
  /\ TurnSaved(1, "user")
  /\ TurnSaved(1, "assistant")

\* C19: a failing store write of a Telegram or terminal turn does not
\* propagate; once the message is dealt with, the response of every run with
\* a failed write has been delivered, once; and of the three writes of that
\* run only those made before the failure are in the store: never the trace,
\* and the assistant turn only with the user turn.
C19_PersistenceFailureContained ==
  /\ [][StepFails => ch_pc' \in {"steps", "idle"}]_vars
  /\ [](ch_pc # "propagated")
  /\ [](ch_pc = "idle" =>
          \A run \in ch_failed :
             /\ Cardinality({k \in DOMAIN ch_sent : ch_sent[k] = run}) = 1
             /\ TraceRowsOf(run) = {}
             /\ TurnSaved(run, "assistant") => TurnSaved(run, "user"))

C19_Witness ==
  /\ ch_pc = "idle"
  /\ 1 \in ch_failed
  /\ Sent(1)
  /\ TurnSaved(1, "user")
  /\ ~TurnSaved(1, "assistant")

\* The last n elements of a sequence, all of it when it is shorter.
LastTurns(s, n) == IF n >= Len(s) THEN s ELSE SubSeq(s, Len(s) - n + 1, Len(s))

\* C20: get_recent_history(s, N) returns the last min(N, count(s)) turns
\* appended to session s, in the order they were appended, whatever was
\* appended to the other sessions.
C20_RecentHistory ==
  [][\A s \in Sessions, n \in 0..MaxTurnsArg :
       GetRecentHistory(s, n) => st_result' = LastTurns(st_log[s], n)]_vars

C20_Witness ==
  /\ st_query = Some([session_id |-> "s1", max_turns |-> 2])
  /\ Len(st_log["s1"]) = 3
  /\ Len(st_log["s2"]) = 1
  /\ Len(st_result) = 2
  /\ st_result = SubSeq(st_log["s1"], 2, 3)
  /\ st_result[1] # st_result[2]

(***************************************************************************)
(* Claims on the user profile, under SpecProfile.                          *)
(***************************************************************************)

\* C21: a profile write (k, v, c) issued while k has an entry of confidence
\* c0 with c <= c0 + 0.1 leaves the table unchanged; hence no write lowers
\* the stored confidence of a key, and a write that changes an existing
\* entry raises its confidence by more than 0.1.
C21_ProfileWriteMonotone ==
  [][\A k \in Keys, v \in Values, c \in Confidences :
       SetProfileKey(k, v, c) =>
         /\ (k \in DOMAIN pr_rows /\ c <= pr_rows[k].confidence + 10) => pr_rows' = pr_rows
         /\ \A q \in DOMAIN pr_rows :
              /\ q \in DOMAIN pr_rows'
              /\ pr_rows'[q].confidence >= pr_rows[q].confidence
              /\ pr_rows'[q] # pr_rows[q] =>
                   q = k /\ pr_rows'[q].confidence > pr_rows[q].confidence + 10]_vars

\* A write of a higher confidence within the margin was issued against an
\* entry holding another value, and the entry is as it was written.
C21_Witness ==
  /\ pr_call.op = "set_profile_key"
  /\ pr_call.key \in DOMAIN pr_rows
  /\ pr_rows[pr_call.key].value # pr_call.value
  /\ pr_call.confidence > pr_rows[pr_call.key].confidence
  /\ pr_call.confidence <= pr_rows[pr_call.key].confidence + 10

\* C24: a decay pass subtracts 0.05 from the confidence of every entry not
\* updated for more than 30 days, leaves the younger entries unchanged, and
\* deletes every entry whose confidence thereby falls below 0.1.
C24_Original ==
  [][DecayProfileConfidence =>
       \A k \in DOMAIN pr_rows :
         IF pr_rows[k].updated_at < pr_now - 30
         THEN IF pr_rows[k].confidence - 5 < 10
              THEN k \notin DOMAIN pr_rows'
              ELSE /\ k \in DOMAIN pr_rows'
                   /\ pr_rows'[k].confidence = pr_rows[k].confidence - 5
         ELSE k \in DOMAIN pr_rows' /\ pr_rows'[k] = pr_rows[k]]_vars

(***************************************************************************)
(* Claim on the session of a chat, under SpecSessions.                     *)
(***************************************************************************)

\* C22: every message of a chat is processed under the same session id, and
\* a stored mapping of a chat is never replaced by another session id, across
\* restarts and across concurrently handled first messages of the chat.
C22_Original ==
  /\ [](\A p, q \in sm_processed : p[1] = q[1] => p[2] = q[2])
  /\ [][\A c \in DOMAIN sm_rows : c \in DOMAIN sm_rows' /\ sm_rows'[c] = sm_rows[c]]_vars

(***************************************************************************)
(* Claim on the traces table, under SpecTraces.                            *)
(***************************************************************************)

\* C23: however many times a trace of a given trace_id was saved, the table
\* holds exactly one row of that id, and a save leaves the rows of the other
\* ids as they were.
C23_SaveTraceIdempotent ==
  /\ [](\A id \in {tr_saved[k] : k \in DOMAIN tr_saved} : Cardinality({r \in tr_rows : r.id = id}) = 1)
  /\ [][\A d \in TraceDatas :
          ("trace_id" \in DOMAIN d /\ SaveTrace(d)) =>
             {r \in tr_rows' : r.id # d.trace_id} = {r \in tr_rows : r.id # d.trace_id}]_vars

\* A trace id was saved three times with another trace in the table.
C23_Witness ==
  /\ Cardinality({k \in DOMAIN tr_saved : tr_saved[k] = "t1"}) >= 3
  /\ \E r \in tr_rows : r.id = "t2"
  /\ \E r \in tr_rows : r.id = "t1" /\ r.success = FALSE

(***************************************************************************)
(* Claims on the context builder, under SpecContext.                       *)
(***************************************************************************)

\* Estimated tokens of a returned context.
ReturnedTokens(out) ==
  (IF out.profile = None THEN 0 ELSE The(out.profile) \div 4)
  + (IF out.memories = None THEN 0 ELSE SumTokens(The(out.memories)))
  + (IF out.summary = None THEN 0 ELSE The(out.summary) \div 4)
  + SumTokens([k \in DOMAIN out.history |-> out.history[k].chars])

\* s is a suffix of t.
IsSuffix(s, t) == Len(s) <= Len(t) /\ s = SubSeq(t, Len(t) - Len(s) + 1, Len(t))

\* The history fetched, empty when the fetch failed.
FetchedHistory == IF cx_results.history.failed THEN <<>> ELSE The(cx_results.history.value)

\* C25: the estimated tokens of the profile, memories, summary and history
\* of every returned context do not exceed the budget minus the 800 tokens
\* of the system prompt and the 4096 tokens of the response buffer.
C25_Original ==
  \A out \in cx_out : ~out.raised => ReturnedTokens(out) <= cx_budget - 800 - 4096

\* C26: the returned history has at least min(4, fetched turns) turns and is
\* a suffix of the fetched history.
C26_HistoryFloor ==
  \A out \in cx_out :
    /\ ~out.raised
    /\ Len(out.history) >= (IF Len(FetchedHistory) < 4 THEN Len(FetchedHistory) ELSE 4)
    /\ IsSuffix(out.history, FetchedHistory)

\* A fetched history of more than four turns was cut to its last four.
C26_Witness ==
  /\ Len(FetchedHistory) > 4
  /\ \E out \in cx_out : Len(out.history) = 4 /\ out.history[1].turn = Len(FetchedHistory) - 3

\* C27: whichever fetches fail, build_context returns; a failed component is
\* absent (None, or an empty history) and a fetched one is returned as
\* fetched, or as the truncation cascade leaves it.
C27_FailedFetchesAbsent ==
  \A out \in cx_out :
    /\ ~out.raised
    /\ IF cx_results.profile.failed THEN out.profile = None
       ELSE out.profile \in {The(cx_results.profile.value), None}
    /\ IF cx_results.memories.failed THEN out.memories = None
       ELSE out.memories # None
            /\ \/ The(out.memories) = The(cx_results.memories.value)
               \/ /\ Len(The(cx_results.memories.value)) > 1
                  /\ The(out.memories) = <<The(cx_results.memories.value)[1]>>
    /\ IF cx_results.summary.failed THEN out.summary = None
       ELSE out.summary \in {The(cx_results.summary.value), None}
    /\ IF cx_results.history.failed THEN out.history = <<>>
       ELSE IsSuffix(out.history, The(cx_results.history.value))

\* The profile and history fetches failed and the other two components came back.
C27_Witness ==
  /\ cx_results.profile.failed /\ cx_results.history.failed
  /\ \E out \in cx_out : out.memories = Some(<<8, 40>>) /\ out.summary = Some(24)

(***************************************************************************)
(* Claim on the semantic retriever, under SpecRetriever.                   *)
(***************************************************************************)

\* C28: search never raises; it returns an empty list when the index could
\* not be initialised or the query failed, and at most min(top_k, 5) results
\* otherwise.
C28_SearchNeverRaises ==
  \A out \in rv_out :
    /\ ~out.raised
    /\ IF ~rv_call.init_ok \/ rv_call.query_raises
       THEN out.results = <<>>
       ELSE Len(out.results) <= (IF rv_call.top_k < 5 THEN rv_call.top_k ELSE 5)

\* More than five results were asked of a collection that holds more, and
\* five came back.
C28_Witness ==
  /\ rv_call.top_k > 5 /\ rv_docs > 5
  /\ \E out \in rv_out : Len(out.results) = 5

(***************************************************************************)
(* Claim on the auto-summarization, under SpecSummary.                     *)
(***************************************************************************)

\* C29: every saved summary has between 50 and 800 characters;
\* summarize_conversation calls the model at most 3 times and returns a text
\* only of such a length; when it returns nothing the transport saves no
\* summary and keeps the history as it was.
C29_SummaryLength ==
  /\ [](/\ \A chars \in su_rows : 50 <= chars /\ chars <= 800
        /\ \A chars \in su_result : 50 <= chars /\ chars <= 800
        /\ su_attempt <= 3)
  /\ [][(su_pc = "returned" /\ su_result = None) =>
          (su_pc' = "done" /\ su_rows' = su_rows /\ su_history' = su_history)]_vars

\* Three attempts gave no valid summary and the transport went on with its
\* seven turns, after a summary of 800 characters had been saved.
C29_Witness ==
  /\ su_pc = "done" /\ su_attempt = 3 /\ su_result = None
  /\ su_history = 7 /\ su_rows = {800}

(***************************************************************************)
(* Claim on the shell tool, under SpecShell.                               *)
(***************************************************************************)

\* C30: once a call of shell_execute has returned its timeout result, the
\* subprocess it started is not running any more: it was killed and waited
\* for before the return.
C30_Original ==
  \A k \in DOMAIN sh_calls :
    (sh_calls[k].pc = "returned" /\ sh_calls[k].result = "timed out") =>
      sh_calls[k].proc = "reaped"

(***************************************************************************)
(* Claims on the cron tool, under SpecCron.                                *)
(***************************************************************************)

C33_Original ==
  (bt_pc \notin {"start", "settings"} /\ ~GuardsIntact(bt_guards)) =>
     /\ bt_pc = "aborted"
     /\ bt_exit = Some(1)
     /\ bt_handled = 0

(***************************************************************************)
(* Claim on the agent loop, under Spec.                                    *)
(***************************************************************************)

\* C38: run never propagates an exception to the transport, whatever fails
\* inside the loop, the confirmation callback included.
C38_Original == pc # "raised"

(***************************************************************************)
(* Claims on classify_command, under SpecClassify.                         *)
(***************************************************************************)

\* The tier the allowlist and signal passes give a command no TIER-3
\* pattern matches.
AllowlistTier(c) ==
  IF AnyMatch(TIER1_PATTERNS, c) /\ ~AnySearch(TIER2_SIGNALS, c)
  THEN TIER_1_AUTO ELSE TIER_2_CONFIRM

FetchedProfile == IF cx_results.profile.failed THEN None ELSE The(cx_results.profile.value)
FetchedMemories == IF cx_results.memories.failed THEN <<>> ELSE The(cx_results.memories.value)
FetchedSummary == IF cx_results.summary.failed THEN None ELSE The(cx_results.summary.value)

\* The memories returned, none counting as an empty list.
ReturnedMemories(out) == IF out.memories = None THEN <<>> ELSE The(out.memories)

\* Estimated tokens of the components as fetched.
TextTokens(text) == IF text = None THEN 0 ELSE The(text) \div 4

FetchedTokens ==
  TextTokens(FetchedProfile) + SumTokens(FetchedMemories)
  + TextTokens(FetchedSummary) + estimate_message_tokens(FetchedHistory)

\* C35: the cascade goes in priority order, each step only while the total
\* exceeds the available budget: the profile is dropped only over budget;
\* the memories are reduced to one only with the profile gone and the rest
\* still over budget; the summary is dropped only if, besides, at most one
\* memory remains and the history is not empty; the history is trimmed only
\* with the summary gone; within the budget nothing is dropped or trimmed.
C35_CascadeOrder ==
  \A out \in cx_out :
    LET available == cx_budget - (SYSTEM_PROMPT_TOKENS + RESPONSE_BUFFER_TOKENS)
        dropped_profile == FetchedProfile # None /\ out.profile = None
        reduced == ReturnedMemories(out) # FetchedMemories
        dropped_summary == FetchedSummary # None /\ out.summary = None
        trimmed == out.history # FetchedHistory
        without_profile == FetchedTokens - TextTokens(FetchedProfile)
        with_one_memory == without_profile - SumTokens(FetchedMemories)
                           + SumTokens(ReturnedMemories(out))
    IN /\ ~out.raised
       /\ dropped_profile => FetchedTokens > available
       /\ reduced => /\ out.profile = None
                     /\ Len(ReturnedMemories(out)) = 1
                     /\ without_profile > available
       /\ dropped_summary => /\ out.profile = None
                             /\ Len(ReturnedMemories(out)) <= 1
                             /\ FetchedHistory # <<>>
                             /\ with_one_memory > available
       /\ trimmed => /\ out.profile = None
                     /\ Len(ReturnedMemories(out)) <= 1
                     /\ out.summary = None
                     /\ with_one_memory - TextTokens(FetchedSummary) > available
       /\ FetchedTokens <= available =>
            /\ out.profile = FetchedProfile
            /\ ReturnedMemories(out) = FetchedMemories
            /\ out.summary = FetchedSummary
            /\ out.history = FetchedHistory

\* The cascade stopped after its second step: the profile was dropped and the
\* memories reduced to one, the summary and the history were kept.
C35_Witness ==
  /\ FetchedProfile # None /\ FetchedSummary # None /\ FetchedHistory # <<>>
  /\ Len(FetchedMemories) = 3
  /\ \E out \in cx_out :
       /\ out.profile = None
       /\ Len(ReturnedMemories(out)) = 1
       /\ out.summary = FetchedSummary
       /\ out.history = FetchedHistory

(***************************************************************************)
(* Claim on concurrent profile writes, under SpecProfileWrites.            *)
(***************************************************************************)

\* C36: under every interleaving of concurrent set_profile_key calls on one
\* key, a write never replaces an entry whose confidence at the moment of
\* the write is at least the new confidence minus 0.1, so the stored
\* confidence never decreases.
C36_Original ==
  [][(pk_row # None /\ pk_row' # pk_row) =>
       /\ ~KeepsExisting(The(pk_row'), The(pk_row))
       /\ The(pk_row') > The(pk_row)]_vars

(***************************************************************************)
(* Claim on the Telegram confirmation, under SpecConfirmation.             *)
(***************************************************************************)

\* C37: the confirmation returns an approval, and the tool is executed,
\* only if the first press received for its token before the timeout was
\* an approval.
C37_Original ==
  (cf_wait.pc = "returned" /\ cf_wait.result) => cf_first = Some(TRUE)

(***************************************************************************)
(* Claim on the indexing of turns, under SpecIndex.                        *)
(***************************************************************************)

\* C39: every document indexed once is still in the collection after any
\* number of later messages of the session have been indexed.
C39_Original ==
  \A document \in ix_indexed :
    \E doc_id \in DOMAIN ix_collection : ix_collection[doc_id] = document

(***************************************************************************)
(* Claim on concurrent messages of a session, under SpecPersistence.       *)
(***************************************************************************)

\* C40: in the persisted history the user row of a turn is immediately
\* followed by the assistant row of that turn, and the turns are in the
\* order their messages arrived (messages are numbered in arrival order).
C40_Original ==
  /\ \A k \in DOMAIN pm_rows :
       (/\ pm_rows[k].role = "user"
        /\ \E j \in DOMAIN pm_rows :
             pm_rows[j] = [message |-> pm_rows[k].message, role |-> "assistant"])
       => /\ k < Len(pm_rows)
          /\ pm_rows[k + 1] = [message |-> pm_rows[k].message, role |-> "assistant"]
  /\ \A k1, k2 \in DOMAIN pm_rows :
       (k1 < k2 /\ pm_rows[k1].role = "user" /\ pm_rows[k2].role = "user")
       => pm_rows[k1].message < pm_rows[k2].message
====
